---- MODULE Spec2Model ----
(***************************************************************************)
(* Order-fulfillment saga of kevint421/e-commerce-app: the inventory       *)
(* repository (optimistic locking on DynamoDB rows), the idempotency       *)
(* service, the webhook ingress, the saga step handlers, the compensation  *)
(* handler, the abandoned-cart reaper and admin cancel.                    *)
(*                                                                         *)
(* Every store call (one DynamoDB request) is one atomic step; a handler   *)
(* invocation is a process whose position between store calls is proc.pc.  *)
(***************************************************************************)
EXTENDS Integers, Sequences, FiniteSets, TLC

VARIABLES
    inventory,   \* Inventory table: key -> row
    orders,      \* Orders table: orderId -> order
    idem,        \* Idempotency table: key -> row
    payments,    \* the payment provider: orderId -> the order's payment intent
    proc,        \* handler invocations: slot -> local state
    nproc,       \* number of invocations started so far
    calls,       \* number of direct repository calls made so far
    lastWrite,   \* history: the last write attempted on the Inventory table
    sagaStarts,  \* history: StartExecution calls per order
    ledger,      \* history: quantity added to and taken from reserved per order item
    fnDone       \* history: successful completions of fn per idempotency key

vars == <<inventory, orders, idem, payments, proc, nproc, calls, lastWrite, sagaStarts, ledger, fnDone>>

----------------------------------------------------------------------------
(* Bounds of the model *)

MaxQty == 3          \* largest quantity on hand of an initial inventory row
MaxCalls == 3        \* direct repository calls per behaviour
MaxReq == 2          \* largest quantity argument of a repository call

----------------------------------------------------------------------------
(* Inventory table *)

Products == {"p1", "p2"}
\* getByProductId returns the rows of the productId-warehouseId index in
\* warehouseId order.
WarehouseOrder == <<"warehouse-east", "warehouse-west">>
Warehouses == {WarehouseOrder[n] : n \in 1..Len(WarehouseOrder)}
AllKeys == Products \X Warehouses
\* The rows of the table.
Keys == DOMAIN inventory

\* A stored row. hasReserved = FALSE is a legacy row with no reserved attribute.
NoRow == [exists |-> FALSE, quantity |-> 0, reserved |-> 0, version |-> 0, hasReserved |-> FALSE]

Row(q, r, v, h) == [exists |-> TRUE, quantity |-> q, reserved |-> r, version |-> v, hasReserved |-> h]

\* if_not_exists(reserved, :zero)
StoredReserved(row) == IF row.hasReserved THEN row.reserved ELSE 0

\* InventoryRepository.get: the row with reserved defaulted to 0.
RepoGet(row) == IF row.exists THEN [row EXCEPT !.reserved = StoredReserved(row), !.hasReserved = TRUE] ELSE NoRow

ReserveCondition(row, qty, expectedVersion) ==
    /\ row.exists
    /\ row.version = expectedVersion
    /\ (~row.hasReserved \/ row.quantity - row.reserved >= qty)

ReserveUpdate(row, qty) ==
    [row EXCEPT !.reserved = StoredReserved(row) + qty, !.hasReserved = TRUE, !.version = @ + 1]

ReleaseCondition(row, qty, expectedVersion) ==
    /\ row.exists
    /\ row.version = expectedVersion
    /\ (~row.hasReserved \/ row.reserved >= qty)

ReleaseUpdate(row, qty) ==
    [row EXCEPT !.reserved = StoredReserved(row) - qty, !.hasReserved = TRUE, !.version = @ + 1]

ConfirmShipmentCondition(row, qty, expectedVersion) ==
    /\ row.exists
    /\ row.version = expectedVersion
    /\ (~row.hasReserved \/ row.reserved >= qty)

ConfirmShipmentUpdate(row, qty) ==
    [row EXCEPT !.reserved = StoredReserved(row) - qty, !.hasReserved = TRUE, !.version = @ + 1]

\* 'version = :expectedVersion' is false on an item that does not exist.
RestockCondition(row, expectedVersion) ==
    /\ row.exists
    /\ row.version = expectedVersion

\* (mutant) restock that forgets to advance the version
RestockKeepsVersion(row, qtyToAdd) ==
    [row EXCEPT !.quantity = @ + qtyToAdd]

RestockUpdate(row, qtyToAdd) ==
    [row EXCEPT !.quantity = @ + qtyToAdd, !.version = @ + 1]

\* The admin handler's manual reduction: SET quantity = :newQty.
ReduceCondition(row, expectedVersion) ==
    /\ row.exists
    /\ row.version = expectedVersion

ReduceUpdate(row, newQty) ==
    [row EXCEPT !.quantity = newQty, !.version = @ + 1]

\* One conditional UpdateItem: the new row, or the row unchanged when the
\* condition fails (ConditionalCheckFailedException).
Write(op, row, qty, expectedVersion) ==
    CASE op = "reserve" ->
           IF ReserveCondition(row, qty, expectedVersion) THEN ReserveUpdate(row, qty) ELSE row
      [] op = "release" ->
           IF ReleaseCondition(row, qty, expectedVersion) THEN ReleaseUpdate(row, qty) ELSE row
      [] op = "confirmShipment" ->
           IF ConfirmShipmentCondition(row, qty, expectedVersion) THEN ConfirmShipmentUpdate(row, qty) ELSE row
      [] op = "restock" ->
           IF RestockCondition(row, expectedVersion) THEN RestockUpdate(row, qty) ELSE row
      [] op = "reduce" ->
           IF ReduceCondition(row, expectedVersion) THEN ReduceUpdate(row, qty) ELSE row

WriteOk(op, row, qty, expectedVersion) ==
    CASE op = "reserve" -> ReserveCondition(row, qty, expectedVersion)
      [] op = "release" -> ReleaseCondition(row, qty, expectedVersion)
      [] op = "confirmShipment" -> ConfirmShipmentCondition(row, qty, expectedVersion)
      [] op = "restock" -> RestockCondition(row, expectedVersion)
      [] op = "reduce" -> ReduceCondition(row, expectedVersion)

NoWrite == [n |-> 0, op |-> "none", key |-> <<"p1", "warehouse-east">>, ok |-> FALSE, before |-> NoRow]

\* The effect of one write request on the table, with its history record.
DoWrite(op, key, qty, expectedVersion) ==
    /\ inventory' = [inventory EXCEPT ![key] = Write(op, @, qty, expectedVersion)]
    /\ lastWrite' = [n |-> lastWrite.n + 1, op |-> op, key |-> key,
                     ok |-> WriteOk(op, inventory[key], qty, expectedVersion),
                     before |-> inventory[key]]

----------------------------------------------------------------------------
(* Orders table, idempotency table, handler invocations *)

NoItems == <<>>

NoOrder == [exists |-> FALSE, status |-> "NONE", paymentStatus |-> "none", paymentIntentId |-> "none",
            items |-> NoItems, totalAmount |-> 0, cancelReason |-> "none"]

\* A payment intent at the provider, with the refunds created against it.
NoPayment == [status |-> "none", amount |-> 0, refunds |-> 0]

\* A row of the idempotency table; result 0 is no result.
NoIdem == [status |-> "ABSENT", result |-> 0]

\* Local state of one handler invocation (the fields a handler does not use
\* keep these values).
IdleProc == [kind |-> "none", pc |-> "idle", oid |-> "none", key |-> <<"p1", "warehouse-east">>,
             ord |-> NoOrder, cur |-> NoRow, i |-> 0, w |-> 0, retryCount |-> 0,
             list |-> <<>>, reservedItems |-> <<>>, steps |-> {}, existing |-> NoIdem,
             ikey |-> "none", result |-> 0, error |-> "none", stage |-> "none", tries |-> 0,
             configured |-> FALSE, webhookSecret |-> "none", signature |-> "none",
             replay |-> "none", failedStep |-> "none", failed |-> {},
             abandonedOrders |-> <<>>, ordersNeedingReminders |-> <<>>, n |-> 0,
             shipment |-> [trackingNumber |-> "none", estimatedDelivery |-> 0],
             attempt |-> 0, maxRetries |-> 0, baseDelay |-> 0, lastError |-> "none",
             delays |-> <<>>]

Procs == DOMAIN proc

\* The next free slot for a new invocation.
CanStart == nproc < Cardinality(Procs)
NewProc == nproc + 1

Start(rec) ==
    /\ CanStart
    /\ proc' = [proc EXCEPT ![NewProc] = rec]
    /\ nproc' = nproc + 1

----------------------------------------------------------------------------
(* Direct calls of the InventoryRepository, and the admin inventory update *)

MaxProcsRepo == 1    \* admin inventory updates per behaviour

InitVersions == {0}

InitRows ==
    {Row(q, r, v, TRUE) : q \in 0..MaxQty, r \in 0..MaxQty, v \in InitVersions}
    \cup {Row(q, 0, v, FALSE) : q \in 0..MaxQty, v \in InitVersions}

\* Rows as the program leaves them: reserved within 0..quantity.
SoundRow(row) == StoredReserved(row) >= 0 /\ StoredReserved(row) <= row.quantity

Versions == 0..(MaxCalls + MaxProcsRepo)

InitRepo ==
    /\ inventory \in [{<<"p1", "warehouse-east">>} -> {row \in InitRows : SoundRow(row)}]
    /\ orders = [o \in {} |-> NoOrder]
    /\ idem = [k \in {} |-> NoIdem]
    /\ payments = [o \in {} |-> NoPayment]
    /\ proc = [p \in 1..MaxProcsRepo |-> IdleProc]
    /\ nproc = 0
    /\ calls = 0
    /\ lastWrite = NoWrite
    /\ sagaStarts = [o \in {} |-> 0]
    /\ ledger = [o \in {} |-> <<>>]
    /\ fnDone = [k \in {} |-> 0]

RepoCall(op) ==
    /\ calls < MaxCalls
    /\ \E key \in Keys, qty \in 1..MaxReq, expectedVersion \in Versions :
          DoWrite(op, key, qty, expectedVersion)
    /\ calls' = calls + 1
    /\ UNCHANGED <<orders, idem, payments, proc, nproc, sagaStarts, ledger, fnDone>>

RepoReserve == RepoCall("reserve")
RepoRelease == RepoCall("release")
RepoConfirmShipment == RepoCall("confirmShipment")
RepoRestock == RepoCall("restock")

\* Admin inventory update, first store call: inventoryRepo.get.
AdminInventoryGet ==
    /\ \E key \in Keys :
          Start([IdleProc EXCEPT !.kind = "admin-inventory", !.pc = "write", !.key = key,
                                 !.cur = RepoGet(inventory[key])])
    /\ UNCHANGED <<inventory, orders, idem, payments, calls, lastWrite, sagaStarts, ledger, fnDone>>

Max(a, b) == IF a >= b THEN a ELSE b

NewQuantity(operation, current, quantity) ==
    CASE operation = "set" -> quantity
      [] operation = "add" -> current + quantity
      [] operation = "subtract" -> Max(0, current - quantity)

\* Admin inventory update, second store call: restock when the delta is
\* positive, the manual reduction when negative, nothing when zero.
AdminInventoryWrite(p) ==
    /\ proc[p].kind = "admin-inventory" /\ proc[p].pc = "write"
    /\ proc[p].cur.exists
    /\ \E operation \in {"set", "add", "subtract"}, quantity \in 0..MaxReq :
          LET newQuantity == NewQuantity(operation, proc[p].cur.quantity, quantity)
              delta == newQuantity - proc[p].cur.quantity
          IN  IF delta > 0
                THEN DoWrite("restock", proc[p].key, delta, proc[p].cur.version)
                ELSE IF delta < 0
                       THEN DoWrite("reduce", proc[p].key, newQuantity, proc[p].cur.version)
                       ELSE UNCHANGED <<inventory, lastWrite>>
    /\ proc' = [proc EXCEPT ![p].pc = "done"]
    /\ UNCHANGED <<orders, idem, payments, nproc, calls, sagaStarts, ledger, fnDone>>

\* N concurrent reserve calls on the rows.
NextReserve == RepoReserve

SpecReserve == InitRepo /\ [][NextReserve]_vars

NextRepo ==
    \/ RepoReserve
    \/ RepoRelease
    \/ RepoConfirmShipment
    \/ RepoRestock
    \/ AdminInventoryGet
    \/ \E p \in Procs : AdminInventoryWrite(p)

SpecRepo == InitRepo /\ [][NextRepo]_vars

----------------------------------------------------------------------------
\* C1: under any interleaving of concurrent reserve calls on a row, reserved
\* never exceeds quantity.
ReservedWithinQuantity ==
    \A key \in Keys : inventory[key].exists =>
        StoredReserved(inventory[key]) <= inventory[key].quantity

\* C1 restricted to rows that store the reserved attribute: a reserve call
\* keeps reserved within quantity.
ReserveKeepsStoredReserved ==
    (lastWrite.op = "reserve" /\ lastWrite.ok /\ lastWrite.before.hasReserved)
        => inventory[lastWrite.key].reserved <= inventory[lastWrite.key].quantity

\* C8: a successful write to an inventory row increases version by exactly
\* 1, and a write whose condition fails leaves the whole row unchanged.
VersionPlusOnePerWrite ==
    [][\A key \in Keys :
          /\ (inventory'[key] # inventory[key] =>
                /\ lastWrite'.n = lastWrite.n + 1 /\ lastWrite'.ok /\ lastWrite'.key = key
                /\ inventory'[key].version = inventory[key].version + 1)
          /\ (lastWrite'.n = lastWrite.n + 1 /\ lastWrite'.key = key =>
                IF lastWrite'.ok
                  THEN inventory'[key].version = inventory[key].version + 1
                  ELSE inventory'[key] = inventory[key])]_vars

\* a write failed after an earlier write had succeeded
VersionWitness ==
    /\ lastWrite.n >= 2 /\ ~lastWrite.ok
    /\ inventory[lastWrite.key] = lastWrite.before
    /\ inventory[lastWrite.key].version >= 1

----------------------------------------------------------------------------
(* IdempotencyService.executeOnce *)

MaxProcsIdem == 2    \* concurrent executeOnce callers per behaviour

IdemStatuses == {"ABSENT", "FAILED", "IN_PROGRESS", "COMPLETED"}

\* The result stored by an earlier caller.
PriorResult == 9

IdemKeys == DOMAIN idem

InitIdem ==
    /\ inventory = [k \in {} |-> NoRow]
    /\ orders = [o \in {} |-> NoOrder]
    /\ \E st \in IdemStatuses :
          idem = [k \in {"k1"} |->
                    [status |-> st, result |-> IF st = "COMPLETED" THEN PriorResult ELSE 0]]
    /\ payments = [o \in {} |-> NoPayment]
    /\ proc = [p \in 1..MaxProcsIdem |-> IdleProc]
    /\ nproc = 0
    /\ calls = 0
    /\ lastWrite = NoWrite
    /\ sagaStarts = [o \in {} |-> 0]
    /\ ledger = [o \in {} |-> <<>>]
    /\ fnDone = [k \in {"k1"} |-> 0]

\* executeOnce, first store call: check(idempotencyKey). A COMPLETED row
\* returns its result without calling fn.
AfterCheckNoCache(rec, row) == [rec EXCEPT !.pc = "eo-mark", !.existing = row]

AfterCheck(rec, row) ==
    IF row.status = "COMPLETED"
      THEN [rec EXCEPT !.pc = "eo-returned", !.result = row.result, !.existing = row]
      ELSE [rec EXCEPT !.pc = "eo-mark", !.existing = row]

\* A direct call of executeOnce.
EoCall ==
    /\ \E k \in IdemKeys :
          Start([IdleProc EXCEPT !.kind = "execute-once", !.pc = "eo-check", !.ikey = k])
    /\ UNCHANGED <<inventory, orders, idem, payments, calls, lastWrite, sagaStarts, ledger, fnDone>>

EoCheck(p) ==
    /\ proc[p].pc = "eo-check"
    /\ proc' = [proc EXCEPT ![p] = AfterCheck(@, idem[proc[p].ikey])]
    /\ UNCHANGED <<inventory, orders, idem, payments, nproc, calls, lastWrite, sagaStarts, ledger, fnDone>>

\* markInProgress: PutItem under attribute_not_exists(idempotencyKey).
EoMarkInProgress(p) ==
    /\ proc[p].pc = "eo-mark"
    /\ IF idem[proc[p].ikey].status = "ABSENT"
         THEN /\ idem' = [idem EXCEPT ![proc[p].ikey] = [status |-> "IN_PROGRESS", result |-> 0]]
              /\ proc' = [proc EXCEPT ![p].pc = "eo-fn"]
         ELSE /\ proc' = [proc EXCEPT ![p].pc = "eo-mark-failed"]
              /\ UNCHANGED idem
    /\ UNCHANGED <<inventory, orders, payments, nproc, calls, lastWrite, sagaStarts, ledger, fnDone>>

\* What markInProgress does with the row it reads after its insert failed:
\* COMPLETED and IN_PROGRESS throw, FAILED returns (fn runs), a row that
\* is gone falls through to handleDynamoDBError.
AfterFailedInsertRetries(row) ==
    CASE row.status = "COMPLETED" -> [pc |-> "eo-threw", error |-> "already completed"]
      [] row.status \in {"IN_PROGRESS", "FAILED"} -> [pc |-> "eo-fn", error |-> "none"]
      [] OTHER -> [pc |-> "eo-threw", error |-> "CONDITIONAL_CHECK_FAILED"]

AfterFailedInsert(row) ==
    CASE row.status = "COMPLETED" -> [pc |-> "eo-threw", error |-> "already completed"]
      [] row.status = "IN_PROGRESS" -> [pc |-> "eo-threw", error |-> "already in progress"]
      [] row.status = "FAILED" -> [pc |-> "eo-fn", error |-> "none"]
      [] OTHER -> [pc |-> "eo-threw", error |-> "CONDITIONAL_CHECK_FAILED"]

\* markInProgress, after ConditionalCheckFailedException: check() again.
EoMarkCheck(p) ==
    /\ proc[p].pc = "eo-mark-failed"
    /\ LET next == AfterFailedInsert(idem[proc[p].ikey])
       IN  proc' = [proc EXCEPT ![p].pc = next.pc, ![p].error = next.error,
                                ![p].existing = idem[proc[p].ikey]]
    /\ UNCHANGED <<inventory, orders, idem, payments, nproc, calls, lastWrite, sagaStarts, ledger, fnDone>>

\* fn of a direct caller returns a result of its own.
EoFnReturns(p) ==
    /\ proc[p].kind = "execute-once" /\ proc[p].pc = "eo-fn"
    /\ proc' = [proc EXCEPT ![p].pc = "eo-complete", ![p].result = p]
    /\ fnDone' = [fnDone EXCEPT ![proc[p].ikey] = @ + 1]
    /\ UNCHANGED <<inventory, orders, idem, payments, nproc, calls, lastWrite, sagaStarts, ledger>>

\* fn of a direct caller throws.
EoFnThrows(p) ==
    /\ proc[p].kind = "execute-once" /\ proc[p].pc = "eo-fn"
    /\ proc' = [proc EXCEPT ![p].pc = "eo-fail", ![p].error = "fn failed"]
    /\ UNCHANGED <<inventory, orders, idem, payments, nproc, calls, lastWrite, sagaStarts, ledger, fnDone>>

\* markCompleted: unconditional SET status = COMPLETED, result.
EoMarkCompletedNoResult(p) ==
    /\ proc[p].pc = "eo-complete"
    /\ idem' = [idem EXCEPT ![proc[p].ikey] = [status |-> "COMPLETED", result |-> 0]]
    /\ proc' = [proc EXCEPT ![p].pc = "eo-returned"]
    /\ UNCHANGED <<inventory, orders, payments, nproc, calls, lastWrite, sagaStarts, ledger, fnDone>>

EoMarkCompleted(p) ==
    /\ proc[p].pc = "eo-complete"
    /\ idem' = [idem EXCEPT ![proc[p].ikey] = [status |-> "COMPLETED", result |-> proc[p].result]]
    /\ proc' = [proc EXCEPT ![p].pc = "eo-returned"]
    /\ UNCHANGED <<inventory, orders, payments, nproc, calls, lastWrite, sagaStarts, ledger, fnDone>>

\* markFailed: unconditional SET status = FAILED; the error is rethrown.
EoMarkFailedKeepsStatus(p) ==
    /\ proc[p].pc = "eo-fail"
    /\ proc' = [proc EXCEPT ![p].pc = "eo-threw"]
    /\ UNCHANGED <<inventory, orders, idem, payments, nproc, calls, lastWrite, sagaStarts, ledger, fnDone>>

EoMarkFailed(p) ==
    /\ proc[p].pc = "eo-fail"
    /\ idem' = [idem EXCEPT ![proc[p].ikey] = [@ EXCEPT !.status = "FAILED"]]
    /\ proc' = [proc EXCEPT ![p].pc = "eo-threw"]
    /\ UNCHANGED <<inventory, orders, payments, nproc, calls, lastWrite, sagaStarts, ledger, fnDone>>

NextIdem ==
    \/ EoCall
    \/ \E p \in Procs : EoCheck(p)
    \/ \E p \in Procs : EoMarkInProgress(p)
    \/ \E p \in Procs : EoMarkCheck(p)
    \/ \E p \in Procs : EoFnReturns(p)
    \/ \E p \in Procs : EoFnThrows(p)
    \/ \E p \in Procs : EoMarkCompleted(p)
    \/ \E p \in Procs : EoMarkFailed(p)

SpecIdem == InitIdem /\ [][NextIdem]_vars

\* The callers whose fn is running.
InFlight(k) == {p \in Procs : proc[p].ikey = k /\ proc[p].pc = "eo-fn"}

\* C4: per idempotency key at most one fn is in flight at any moment and fn
\* completes successfully at most once, whatever the row's prior status.
AtMostOneExecution ==
    \A k \in IdemKeys : Cardinality(InFlight(k)) <= 1 /\ fnDone[k] <= 1

----------------------------------------------------------------------------
(* executeOnce, one caller's steps *)

\* The caller takes the step.
Steps(p) == proc'[p] # proc[p]

\* The row of the caller's key, as its next store call finds it.
RowOf(p) == idem[proc[p].ikey]

\* C17: executeOnce on a key whose row is COMPLETED returns the stored
\* result, does not invoke fn and writes nothing to the idempotency store.
CompletedReturnsStored ==
    [][\A p \in Procs :
          (proc[p].pc = "eo-check" /\ RowOf(p).status = "COMPLETED" /\ Steps(p))
          => /\ proc'[p].pc = "eo-returned"
             /\ proc'[p].result = RowOf(p).result
             /\ idem' = idem /\ fnDone' = fnDone]_vars

\* A caller has returned the result another caller stored in this run.
CompletedWitness ==
    \E p \in Procs :
        /\ proc[p].kind = "execute-once" /\ proc[p].pc = "eo-returned"
        /\ proc[p].existing.status = "COMPLETED"
        /\ proc[p].result = proc[p].existing.result
        /\ proc[p].result # p /\ proc[p].result # PriorResult

\* C18: a caller whose lookup saw no COMPLETED row and whose insert then
\* fails on a row another caller has completed meanwhile returns that
\* row's result, raises no error and does not invoke fn.
CompletedMeanwhileReturnsCached ==
    [][\A p \in Procs :
          (proc[p].pc = "eo-mark-failed" /\ RowOf(p).status = "COMPLETED" /\ Steps(p))
          => /\ proc'[p].pc = "eo-returned"
             /\ proc'[p].result = RowOf(p).result
             /\ fnDone' = fnDone]_vars

\* C19: executeOnce on a key whose row is IN_PROGRESS fails with "already
\* in progress", does not invoke fn and leaves the row IN_PROGRESS.
InProgressRejected ==
    [][\A p \in Procs :
          (proc[p].pc \in {"eo-check", "eo-mark", "eo-mark-failed"}
              /\ RowOf(p).status = "IN_PROGRESS" /\ Steps(p))
          => /\ idem' = idem /\ fnDone' = fnDone
             /\ proc'[p].pc \in {"eo-mark", "eo-mark-failed", "eo-threw"}
             /\ proc[p].pc = "eo-mark-failed"
                   => proc'[p].pc = "eo-threw" /\ proc'[p].error = "already in progress"]_vars

\* A caller has failed with "already in progress" while the fn of the
\* caller that holds the key is running.
InProgressWitness ==
    \E p, q \in Procs :
        /\ proc[p].pc = "eo-threw" /\ proc[p].error = "already in progress"
        /\ proc[q].ikey = proc[p].ikey /\ proc[q].pc = "eo-fn"
        /\ idem[proc[p].ikey].status = "IN_PROGRESS"
        /\ fnDone[proc[p].ikey] = 0

\* C20: when fn throws, the row becomes FAILED and the caller gets fn's
\* error; a later caller of the key, finding the row FAILED, invokes fn
\* again, and when that fn succeeds the row is COMPLETED with its result.
FailedIsRetried ==
    [][\A p \in Procs : Steps(p) =>
          /\ proc[p].pc = "eo-fail"
                => /\ idem'[proc[p].ikey].status = "FAILED"
                   /\ proc'[p].pc = "eo-threw" /\ proc'[p].error = proc[p].error
          /\ (proc[p].pc = "eo-fn" /\ proc'[p].pc = "eo-fail") => proc'[p].error = "fn failed"
          /\ (proc[p].pc = "eo-check" /\ RowOf(p).status = "FAILED") => proc'[p].pc = "eo-mark"
          /\ (proc[p].pc = "eo-mark" /\ RowOf(p).status = "FAILED") => proc'[p].pc = "eo-mark-failed"
          /\ (proc[p].pc = "eo-mark-failed" /\ RowOf(p).status = "FAILED") => proc'[p].pc = "eo-fn"
          /\ proc[p].pc = "eo-complete"
                => /\ idem'[proc[p].ikey] = [status |-> "COMPLETED", result |-> proc[p].result]
                   /\ proc'[p].pc = "eo-returned"]_vars

\* One caller's fn has thrown and it got the error; a later caller found
\* the row FAILED, ran fn and the row is COMPLETED with that result.
FailedRetryWitness ==
    \E p, q \in Procs :
        /\ proc[q].pc = "eo-threw" /\ proc[q].error = "fn failed"
        /\ proc[p].ikey = proc[q].ikey /\ proc[p].pc = "eo-returned"
        /\ proc[p].existing.status = "FAILED" /\ proc[p].result = p
        /\ idem[proc[p].ikey] = [status |-> "COMPLETED", result |-> p]

----------------------------------------------------------------------------
(* Orders *)

Orders == DOMAIN orders

Item(productId, quantity) == [productId |-> productId, quantity |-> quantity, warehouseId |-> "none"]

RECURSIVE SumQuantity(_)
SumQuantity(items) ==
    IF items = <<>> THEN 0 ELSE items[1].quantity + SumQuantity(Tail(items))

\* The order as create-order persists it: PENDING, paymentStatus pending,
\* paymentIntentId set. Every unit costs 1, so totalAmount is the sum of
\* the quantities.
NewOrder(items) ==
    [exists |-> TRUE, status |-> "PENDING", paymentStatus |-> "pending", paymentIntentId |-> "pi",
     items |-> items, totalAmount |-> SumQuantity(items), cancelReason |-> "none"]

\* OrderRepository.update / updateStatus: SET of the given attributes and of
\* updatedAt = getCurrentTimestamp() under attribute_exists(PK); no
\* condition on the stored status. The clock has advanced since the
\* row's last write. (updatedAt is tracked where the order carries it.)
OrderUpdate(order, updates) ==
    IF order.exists
      THEN [f \in DOMAIN order |->
              IF f \in DOMAIN updates THEN updates[f]
              ELSE IF f = "updatedAt" THEN order.updatedAt + 1
              ELSE order[f]]
      ELSE order

\* OrderRepository.updatePaymentInfo: SET of the payment attributes.
UpdatePaymentInfo(order, info) == OrderUpdate(order, info)

\* The reservations made for an order: per item the quantity ever added to
\* reserved, per row the quantity added and not yet released.
NoLedger(items) ==
    [added |-> [i \in 1..Len(items) |-> 0], held |-> [key \in AllKeys |-> 0], reservedItems |-> <<>>]

RECURSIVE SumHeld(_, _)
SumHeld(held, keys) ==
    IF keys = {} THEN 0
    ELSE LET key == CHOOSE k \in keys : TRUE
         IN  held[key] + SumHeld(held, keys \ {key})

\* Quantity of reserved stock currently held on behalf of an order.
Held(o) == SumHeld(ledger[o].held, AllKeys)

KeyOf(productId, warehouseId) == <<productId, warehouseId>>

\* A saga step ended by throwing: the error leaves the step handler.
Threw(rec, error) == [rec EXCEPT !.pc = "step-threw", !.error = error]

\* An invocation is over: its locals are gone.
Finished(rec) == [IdleProc EXCEPT !.kind = rec.kind, !.oid = rec.oid, !.pc = "done"]

\* A handler is invoked for a saga execution with fresh locals.
Invoke(rec, stage, pc) ==
    [IdleProc EXCEPT !.kind = rec.kind, !.oid = rec.oid, !.tries = rec.tries, !.stage = stage, !.pc = pc,
                     !.replay = IF rec.replay = "none" THEN "none" ELSE "past"]

----------------------------------------------------------------------------
(* Webhook ingress *)

WebhookEvents == {"payment_intent.succeeded", "payment_intent.payment_failed", "payment_intent.canceled"}

\* Invocations of a kind of handler so far.
Invocations(kind) == Cardinality({p \in Procs : proc[p].kind = kind})

MaxDeliveries == 2     \* webhook deliveries per behaviour

\* A webhook request arrives; the handler dispatches on the event type.
WebhookReceived ==
    /\ Invocations("webhook") < MaxDeliveries
    /\ \E o \in Orders, type \in WebhookEvents :
          Start([IdleProc EXCEPT !.kind = "webhook", !.oid = o, !.stage = type,
                                 !.pc = IF type = "payment_intent.succeeded" THEN "wh-get" ELSE "wh-cancel"])
    /\ UNCHANGED <<inventory, orders, idem, payments, calls, lastWrite, sagaStarts, ledger, fnDone>>

\* handlePaymentSucceeded: read the order; anything but PENDING is taken
\* for a duplicate and skipped.
WebhookGetNoDuplicateCheck(p) ==
    /\ proc[p].kind = "webhook" /\ proc[p].pc = "wh-get"
    /\ proc' = [proc EXCEPT ![p].pc = "wh-update"]
    /\ UNCHANGED <<inventory, orders, idem, payments, nproc, calls, lastWrite, sagaStarts, ledger, fnDone>>

WebhookGet(p) ==
    /\ proc[p].kind = "webhook" /\ proc[p].pc = "wh-get"
    /\ LET existingOrder == orders[proc[p].oid]
       IN  proc' = [proc EXCEPT ![p] = IF existingOrder.status # "PENDING"
                                         THEN [Finished(@) EXCEPT !.stage = "duplicate"]
                                         ELSE [@ EXCEPT !.pc = "wh-update"]]
    /\ UNCHANGED <<inventory, orders, idem, payments, nproc, calls, lastWrite, sagaStarts, ledger, fnDone>>

\* handlePaymentSucceeded: persist the payment info.
WebhookUpdatePaymentInfo(p) ==
    /\ proc[p].kind = "webhook" /\ proc[p].pc = "wh-update"
    /\ orders' = [orders EXCEPT ![proc[p].oid] =
                    UpdatePaymentInfo(@, [paymentIntentId |-> "pi", paymentStatus |-> "succeeded"])]
    /\ proc' = [proc EXCEPT ![p].pc = "wh-start"]
    /\ UNCHANGED <<inventory, idem, payments, nproc, calls, lastWrite, sagaStarts, ledger, fnDone>>

\* handlePaymentSucceeded: re-read the order for the execution input and
\* StartExecution; the new execution begins with ReserveInventory.
WebhookStartExecution(p) ==
    /\ proc[p].kind = "webhook" /\ proc[p].pc = "wh-start"
    /\ CanStart
    /\ proc' = [proc EXCEPT ![p] = Finished(@),
                            ![NewProc] = [IdleProc EXCEPT !.kind = "saga", !.oid = proc[p].oid,
                                                          !.stage = "reserve", !.pc = "ri-get"]]
    /\ nproc' = nproc + 1
    /\ sagaStarts' = [sagaStarts EXCEPT ![proc[p].oid] = @ + 1]
    /\ UNCHANGED <<inventory, orders, idem, payments, calls, lastWrite, ledger, fnDone>>

\* handlePaymentFailed / handlePaymentCanceled: updateStatus(CANCELLED).
WebhookCancel(p) ==
    /\ proc[p].kind = "webhook" /\ proc[p].pc = "wh-cancel"
    /\ orders' = [orders EXCEPT ![proc[p].oid] = OrderUpdate(@, [status |-> "CANCELLED"])]
    /\ proc' = [proc EXCEPT ![p].pc = "wh-cancel-info"]
    /\ UNCHANGED <<inventory, idem, payments, nproc, calls, lastWrite, sagaStarts, ledger, fnDone>>

\* handlePaymentFailed / handlePaymentCanceled: updatePaymentInfo.
WebhookCancelInfo(p) ==
    /\ proc[p].kind = "webhook" /\ proc[p].pc = "wh-cancel-info"
    /\ orders' = [orders EXCEPT ![proc[p].oid] =
                    UpdatePaymentInfo(@, [paymentIntentId |-> "pi",
                                          paymentStatus |-> IF proc[p].stage = "payment_intent.payment_failed"
                                                              THEN "failed" ELSE "canceled"])]
    /\ proc' = [proc EXCEPT ![p] = Finished(@)]
    /\ UNCHANGED <<inventory, idem, payments, nproc, calls, lastWrite, sagaStarts, ledger, fnDone>>

----------------------------------------------------------------------------
(* ReserveInventory step *)

\* const maxRetries = 3
MaxRetries == 3

\* The name of the error InventoryRepository.reserve throws when its
\* condition fails: it catches ConditionalCheckFailedException and throws
\* new Error(...).
ReserveErrorName == "Error"

\* The handler's test for a version conflict.
IsConflict(errorName) == errorName = "ConditionalCheckFailedException"

\* getByProductId: the product's rows in index order, reserved defaulted.
ListEntry(key) == [key |-> key, quantity |-> inventory[key].quantity,
                   reserved |-> StoredReserved(inventory[key])]

RECURSIVE ListFrom(_, _)
ListFrom(productId, n) ==
    IF n > Len(WarehouseOrder) THEN <<>>
    ELSE LET key == KeyOf(productId, WarehouseOrder[n])
         IN  (IF key \in Keys /\ inventory[key].exists THEN <<ListEntry(key)>> ELSE <<>>)
                \o ListFrom(productId, n + 1)

GetByProductId(productId) == ListFrom(productId, 1)

\* The first warehouse of the list, from position w on, whose listed
\* quantity - reserved covers the request; 0 when there is none.
RECURSIVE NextCandidate(_, _, _)
NextCandidate(list, w, quantity) ==
    IF w > Len(list) THEN 0
    ELSE IF list[w].quantity - list[w].reserved < quantity
           THEN NextCandidate(list, w + 1, quantity)
           ELSE w

\* The handler after the loop over the warehouses from position w on:
\* fresh read of the next candidate, or the step fails.
TryWarehouse(rec, w) ==
    LET next == NextCandidate(rec.list, w, rec.ord.items[rec.i].quantity)
    IN  IF next = 0
          THEN Threw(rec, "Insufficient inventory")
          ELSE [rec EXCEPT !.w = next, !.retryCount = 0, !.pc = "ri-fresh"]

\* The reservation of an order that is INVENTORY_RESERVED already, as the
\* handler returns it: the items with their stored warehouse, and the
\* default warehouse for an item that stores none.
ExistingAtDefault(order) ==
    [n \in 1..Len(order.items) |-> [order.items[n] EXCEPT !.warehouseId = "warehouse-east"]]

ExistingReservation(order) ==
    [n \in 1..Len(order.items) |->
        [order.items[n] EXCEPT !.warehouseId = IF @ = "none" THEN "warehouse-east" ELSE @]]

\* The order is read and its status checked.
ReserveGetOrder(p) ==
    /\ proc[p].stage = "reserve" /\ proc[p].pc = "ri-get"
    /\ LET order == orders[proc[p].oid]
       IN  proc' = [proc EXCEPT ![p] =
              IF ~order.exists THEN Threw(@, "Order not found")
              ELSE IF order.status = "INVENTORY_RESERVED"
                     THEN [@ EXCEPT !.pc = "step-returned", !.ord = order,
                              !.reservedItems = ExistingReservation(order)]
              ELSE IF order.status # "PENDING"
                     THEN Threw(@, "Cannot reserve inventory")
              ELSE [@ EXCEPT !.ord = order, !.i = 1, !.reservedItems = <<>>, !.pc = "ri-list"]]
    /\ UNCHANGED <<inventory, orders, idem, payments, nproc, calls, lastWrite, sagaStarts, ledger, fnDone>>

\* inventoryRepo.getByProductId for the current item.
ReserveList(p) ==
    /\ proc[p].stage = "reserve" /\ proc[p].pc = "ri-list"
    /\ proc' = [proc EXCEPT ![p] =
                   TryWarehouse([@ EXCEPT !.list = GetByProductId(proc[p].ord.items[proc[p].i].productId)], 1)]
    /\ UNCHANGED <<inventory, orders, idem, payments, nproc, calls, lastWrite, sagaStarts, ledger, fnDone>>

\* The handler's catch block around the reserve call.
AfterReserveError(rec, errorName) ==
    IF IsConflict(errorName)
      THEN IF rec.retryCount + 1 < MaxRetries
             THEN [rec EXCEPT !.retryCount = @ + 1, !.pc = "ri-fresh"]
             ELSE TryWarehouse(rec, rec.w + 1)
      ELSE Threw(rec, "Inventory reservation failed")

\* inventoryRepo.get of the candidate: 'Get fresh inventory data'.
ReserveFresh(p) ==
    /\ proc[p].stage = "reserve" /\ proc[p].pc = "ri-fresh"
    /\ LET key == proc[p].list[proc[p].w].key
           currentInventory == RepoGet(inventory[key])
           available == currentInventory.quantity - currentInventory.reserved
       IN  proc' = [proc EXCEPT ![p] =
              IF ~currentInventory.exists THEN AfterReserveError(@, "Error")
              ELSE IF available < @.ord.items[@.i].quantity
                     THEN TryWarehouse(@, @.w + 1)
              ELSE [@ EXCEPT !.cur = currentInventory, !.key = key, !.pc = "ri-reserve"]]
    /\ UNCHANGED <<inventory, orders, idem, payments, nproc, calls, lastWrite, sagaStarts, ledger, fnDone>>

\* After an item is reserved: the next item, or the order update.
AfterReserved(rec) ==
    LET item == rec.ord.items[rec.i]
        done == [rec EXCEPT !.reservedItems =
                    Append(@, [item EXCEPT !.warehouseId = rec.key[2]])]
    IN  IF rec.i = Len(rec.ord.items)
          THEN [done EXCEPT !.pc = "ri-update"]
          ELSE [done EXCEPT !.i = @ + 1, !.pc = "ri-list"]

\* inventoryRepo.reserve with the version just read.
ReserveWrite(p) ==
    /\ proc[p].stage = "reserve" /\ proc[p].pc = "ri-reserve"
    /\ LET quantity == proc[p].ord.items[proc[p].i].quantity
           ok == ReserveCondition(inventory[proc[p].key], quantity, proc[p].cur.version)
       IN  /\ DoWrite("reserve", proc[p].key, quantity, proc[p].cur.version)
           /\ proc' = [proc EXCEPT ![p] =
                          IF ok THEN AfterReserved(@) ELSE AfterReserveError(@, ReserveErrorName)]
           /\ ledger' = [ledger EXCEPT ![proc[p].oid].added[proc[p].i] = IF ok THEN @ + quantity ELSE @,
                                        ![proc[p].oid].held[proc[p].key] = IF ok THEN @ + quantity ELSE @]
    /\ UNCHANGED <<orders, idem, payments, nproc, calls, sagaStarts, fnDone>>

\* reservedItems.find(r => r.productId === item.productId)
RECURSIVE FindByProduct(_, _)
FindByProduct(reservedItems, productId) ==
    IF reservedItems = <<>> THEN "none"
    ELSE IF reservedItems[1].productId = productId
           THEN reservedItems[1].warehouseId
           ELSE FindByProduct(Tail(reservedItems), productId)

UpdatedItems(items, reservedItems) ==
    [n \in 1..Len(items) |->
        LET warehouseId == FindByProduct(reservedItems, items[n].productId)
        IN  IF warehouseId # "none" THEN [items[n] EXCEPT !.warehouseId = warehouseId] ELSE items[n]]

\* orderRepo.update: the items with their warehouses, status
\* INVENTORY_RESERVED.
ReserveUpdateOrder(p) ==
    /\ proc[p].stage = "reserve" /\ proc[p].pc = "ri-update"
    /\ orders' = [orders EXCEPT ![proc[p].oid] =
                    OrderUpdate(@, [items |-> UpdatedItems(proc[p].ord.items, proc[p].reservedItems),
                                    status |-> "INVENTORY_RESERVED"])]
    /\ proc' = [proc EXCEPT ![p].pc = "step-returned"]
    /\ ledger' = [ledger EXCEPT ![proc[p].oid].reservedItems = proc[p].reservedItems]
    /\ UNCHANGED <<inventory, idem, payments, nproc, calls, lastWrite, sagaStarts, fnDone>>

----------------------------------------------------------------------------
(* VerifyPayment step *)

\* IdempotencyService.generateOrderKey
generateOrderKey(orderId, operation) == "order:" \o orderId \o ":" \o operation

\* The order is read and its status checked; executeOnce begins.
VerifyGetOrder(p) ==
    /\ proc[p].stage = "payment" /\ proc[p].pc = "vp-get"
    /\ LET order == orders[proc[p].oid]
       IN  proc' = [proc EXCEPT ![p] =
              IF ~order.exists THEN Threw(@, "Order not found")
              ELSE IF order.status # "INVENTORY_RESERVED"
                     THEN Threw(@, "Order must be in INVENTORY_RESERVED status")
              ELSE [@ EXCEPT !.ord = order, !.pc = "eo-check",
                             !.ikey = generateOrderKey(proc[p].oid, "payment-verification")]]
    /\ UNCHANGED <<inventory, orders, idem, payments, nproc, calls, lastWrite, sagaStarts, ledger, fnDone>>

\* fn of the step: the payment intent must exist, have succeeded and carry
\* the order's amount.
PaymentVerifiedAnyAmount(order, paymentIntent) ==
    /\ order.paymentIntentId # "none"
    /\ paymentIntent.status = "succeeded"

PaymentVerified(order, paymentIntent) ==
    /\ order.paymentIntentId # "none"
    /\ paymentIntent.status = "succeeded"
    /\ paymentIntent.amount = order.totalAmount

VerifyFn(p) ==
    /\ proc[p].stage = "payment" /\ proc[p].pc = "eo-fn"
    /\ LET ok == PaymentVerified(proc[p].ord, payments[proc[p].oid])
       IN  /\ proc' = [proc EXCEPT ![p] =
                          IF ok THEN [@ EXCEPT !.pc = "eo-complete", !.result = payments[proc[p].oid].amount]
                          ELSE [@ EXCEPT !.pc = "eo-fail", !.error = "Payment verification failed"]]
           /\ fnDone' = [fnDone EXCEPT ![proc[p].ikey] = IF ok THEN @ + 1 ELSE @]
    /\ UNCHANGED <<inventory, orders, idem, payments, nproc, calls, lastWrite, sagaStarts, ledger>>

\* orderRepo.update: status PAYMENT_CONFIRMED.
VerifyUpdateOrder(p) ==
    /\ proc[p].stage = "payment" /\ proc[p].pc = "eo-returned"
    /\ orders' = [orders EXCEPT ![proc[p].oid] = OrderUpdate(@, [status |-> "PAYMENT_CONFIRMED"])]
    /\ proc' = [proc EXCEPT ![p].pc = "step-returned"]
    /\ UNCHANGED <<inventory, idem, payments, nproc, calls, lastWrite, sagaStarts, ledger, fnDone>>

----------------------------------------------------------------------------
(* AllocateShipping step *)

ShippingGetOrder(p) ==
    /\ proc[p].stage = "shipping" /\ proc[p].pc = "as-get"
    /\ LET order == orders[proc[p].oid]
       IN  proc' = [proc EXCEPT ![p] =
              IF ~order.exists THEN Threw(@, "Order not found")
              ELSE IF order.status # "PAYMENT_CONFIRMED"
                     THEN Threw(@, "Order must be in PAYMENT_CONFIRMED status")
              ELSE [@ EXCEPT !.ord = order, !.pc = "as-update"]]
    /\ UNCHANGED <<inventory, orders, idem, payments, nproc, calls, lastWrite, sagaStarts, ledger, fnDone>>

carriers == {"USPS", "FedEx", "UPS"}

\* carrier.toUpperCase().slice(0, 2), the head of the tracking number; the
\* digits after it are the clock and a random number.
TrackingPrefix(carrier) ==
    CASE carrier = "USPS" -> "US"
      [] carrier = "FedEx" -> "FE"
      [] carrier = "UPS" -> "UP"

\* Days from today to the estimated delivery: 3 + floor(random * 3).
DeliveryDays == 3..5

\* The tracking number and the delivery date are minted, then
\* orderRepo.update writes status SHIPPING_ALLOCATED and the step returns
\* what it minted.
ShippingUpdateOrder(p) ==
    /\ proc[p].stage = "shipping" /\ proc[p].pc = "as-update"
    /\ orders' = [orders EXCEPT ![proc[p].oid] = OrderUpdate(@, [status |-> "SHIPPING_ALLOCATED"])]
    /\ \E carrier \in carriers, days \in DeliveryDays :
          proc' = [proc EXCEPT ![p].pc = "step-returned",
                               ![p].shipment = [trackingNumber |-> TrackingPrefix(carrier),
                                                estimatedDelivery |-> days]]
    /\ UNCHANGED <<inventory, idem, payments, nproc, calls, lastWrite, sagaStarts, ledger, fnDone>>

----------------------------------------------------------------------------
(* Compensation handler *)

needsInventoryRelease(order) ==
    order.status \in {"INVENTORY_RESERVED", "PAYMENT_CONFIRMED", "SHIPPING_ALLOCATED"}

needsPaymentRefundShippedOnly(order) == order.status = "SHIPPING_ALLOCATED"

needsPaymentRefund(order) ==
    order.status \in {"PAYMENT_CONFIRMED", "SHIPPING_ALLOCATED"}

\* releaseInventory from item i on: the next item's row is read, or the
\* loop is over and the order is cancelled.
ReleaseFrom(rec, i) ==
    IF i > Len(rec.ord.items)
      THEN [rec EXCEPT !.steps = @ \cup {"INVENTORY_RELEASED"}, !.pc = "ch-cancel"]
      ELSE [rec EXCEPT !.i = i, !.pc = "ch-release-get"]

\* The handler after the refund part.
AfterRefund(rec) ==
    LET done == [rec EXCEPT !.steps = @ \cup {"PAYMENT_REFUNDED"}]
    IN  IF needsInventoryRelease(rec.ord) THEN ReleaseFrom(done, 1) ELSE [done EXCEPT !.pc = "ch-cancel"]

\* The order is read; what to compensate is decided from its status.
CompensationGetOrder(p) ==
    /\ proc[p].stage = "compensate" /\ proc[p].pc = "ch-get"
    /\ LET order == orders[proc[p].oid]
           rec == [proc[p] EXCEPT !.ord = order, !.steps = {}]
       IN  proc' = [proc EXCEPT ![p] =
              IF ~order.exists THEN [rec EXCEPT !.pc = "ch-returned", !.result = 0]
              ELSE IF needsPaymentRefund(order)
                     THEN IF order.paymentIntentId = "none" THEN AfterRefund(rec)
                          ELSE [rec EXCEPT !.pc = "ch-refund"]
              ELSE IF needsInventoryRelease(order) THEN ReleaseFrom(rec, 1)
              ELSE [rec EXCEPT !.pc = "ch-cancel"]]
    /\ UNCHANGED <<inventory, orders, idem, payments, nproc, calls, lastWrite, sagaStarts, ledger, fnDone>>

\* refundPayment: createRefund either creates the refund or throws; the
\* error is swallowed and the handler goes on.
CompensationRefund(p) ==
    /\ proc[p].stage = "compensate" /\ proc[p].pc = "ch-refund"
    /\ \E created \in BOOLEAN :
          IF created
            THEN /\ payments' = [payments EXCEPT ![proc[p].oid].refunds = @ + 1]
                 /\ proc' = [proc EXCEPT ![p].pc = "ch-refund-update"]
            ELSE /\ proc' = [proc EXCEPT ![p] = AfterRefund([@ EXCEPT !.failed = @ \cup {"refund"}])]
                 /\ UNCHANGED payments
    /\ UNCHANGED <<inventory, orders, idem, nproc, calls, lastWrite, sagaStarts, ledger, fnDone>>

\* refundPayment: orderRepo.update paymentStatus 'refunded'.
CompensationRefundCancels(p) ==
    /\ proc[p].stage = "compensate" /\ proc[p].pc = "ch-refund-update"
    /\ orders' = [orders EXCEPT ![proc[p].oid] =
                    OrderUpdate(@, [paymentStatus |-> "refunded", status |-> "CANCELLED"])]
    /\ proc' = [proc EXCEPT ![p] = AfterRefund(@)]
    /\ UNCHANGED <<inventory, idem, payments, nproc, calls, lastWrite, sagaStarts, ledger, fnDone>>

CompensationRefundUpdate(p) ==
    /\ proc[p].stage = "compensate" /\ proc[p].pc = "ch-refund-update"
    /\ orders' = [orders EXCEPT ![proc[p].oid] = OrderUpdate(@, [paymentStatus |-> "refunded"])]
    /\ proc' = [proc EXCEPT ![p] = AfterRefund(@)]
    /\ UNCHANGED <<inventory, idem, payments, nproc, calls, lastWrite, sagaStarts, ledger, fnDone>>

\* The row an item is released from.
ReleaseKey(item) ==
    KeyOf(item.productId, IF item.warehouseId = "none" THEN "warehouse-east" ELSE item.warehouseId)

\* releaseInventory: inventoryRepo.get of the item's row.
CompensationReleaseGet(p) ==
    /\ proc[p].stage = "compensate" /\ proc[p].pc = "ch-release-get"
    /\ LET key == ReleaseKey(proc[p].ord.items[proc[p].i])
           row == RepoGet(inventory[key])
       IN  proc' = [proc EXCEPT ![p] =
              IF ~row.exists THEN ReleaseFrom(@, @.i + 1)
              ELSE [@ EXCEPT !.key = key, !.cur = row, !.pc = "ch-release"]]
    /\ UNCHANGED <<inventory, orders, idem, payments, nproc, calls, lastWrite, sagaStarts, ledger, fnDone>>

\* releaseInventory: inventoryRepo.release with the version just read; a
\* failure is logged and the loop goes on with the next item.
CompensationRelease(p) ==
    /\ proc[p].stage = "compensate" /\ proc[p].pc = "ch-release"
    /\ LET quantity == proc[p].ord.items[proc[p].i].quantity
           ok == ReleaseCondition(inventory[proc[p].key], quantity, proc[p].cur.version)
       IN  /\ DoWrite("release", proc[p].key, quantity, proc[p].cur.version)
           /\ ledger' = [ledger EXCEPT ![proc[p].oid].held[proc[p].key] =
                            IF ok THEN Max(0, @ - quantity) ELSE @]
           /\ proc' = [proc EXCEPT ![p] =
                         ReleaseFrom([@ EXCEPT !.failed = IF ok THEN @ ELSE @ \cup {"release"}], @.i + 1)]
    /\ UNCHANGED <<orders, idem, payments, nproc, calls, sagaStarts, fnDone>>

\* orderRepo.update: status CANCELLED; the handler returns success.
CompensationCancel(p) ==
    /\ proc[p].stage = "compensate" /\ proc[p].pc = "ch-cancel"
    /\ orders' = [orders EXCEPT ![proc[p].oid] = OrderUpdate(@, [status |-> "CANCELLED"])]
    /\ proc' = [proc EXCEPT ![p].pc = "ch-returned", ![p].result = 1]
    /\ UNCHANGED <<inventory, idem, payments, nproc, calls, lastWrite, sagaStarts, ledger, fnDone>>

----------------------------------------------------------------------------
(* Admin cancel: POST /admin/orders/{orderId}/cancel *)

\* The next item from i on that carries a warehouseId; items without one
\* are skipped. Past the last item the order is cancelled.
RECURSIVE AdminReleaseFrom(_, _)
AdminReleaseFrom(rec, i) ==
    IF i > Len(rec.ord.items)
      THEN [rec EXCEPT !.steps = @ \cup {"inventory_released"}, !.pc = "ac-cancel"]
    ELSE IF rec.ord.items[i].warehouseId = "none" THEN AdminReleaseFrom(rec, i + 1)
    ELSE [rec EXCEPT !.i = i, !.pc = "ac-release-get"]

\* The handler after the refund part.
AfterAdminRefund(rec) ==
    IF rec.ord.status \in {"INVENTORY_RESERVED", "PAYMENT_CONFIRMED"}
      THEN AdminReleaseFrom(rec, 1)
      ELSE [rec EXCEPT !.pc = "ac-cancel"]

MaxAdminCancels == 1   \* admin cancel requests per behaviour

AdminCancelReceived ==
    /\ Invocations("admin-cancel") < MaxAdminCancels
    /\ \E o \in Orders :
          Start([IdleProc EXCEPT !.kind = "admin-cancel", !.oid = o, !.pc = "ac-get"])
    /\ UNCHANGED <<inventory, orders, idem, payments, calls, lastWrite, sagaStarts, ledger, fnDone>>

\* The order is read; a missing order is answered 404, a CANCELLED or
\* SHIPPING_ALLOCATED order 400.
AdminCancelGetAllowsShipped(p) ==
    /\ proc[p].kind = "admin-cancel" /\ proc[p].pc = "ac-get"
    /\ LET order == orders[proc[p].oid]
           rec == [proc[p] EXCEPT !.ord = order]
       IN  proc' = [proc EXCEPT ![p] =
              IF ~order.exists THEN [Finished(rec) EXCEPT !.result = 404]
              ELSE IF order.status = "CANCELLED" THEN [Finished(rec) EXCEPT !.result = 400]
              ELSE IF order.paymentIntentId # "none" /\ order.paymentStatus = "succeeded"
                     THEN [rec EXCEPT !.pc = "ac-refund"]
              ELSE AfterAdminRefund(rec)]
    /\ UNCHANGED <<inventory, orders, idem, payments, nproc, calls, lastWrite, sagaStarts, ledger, fnDone>>

AdminCancelGet(p) ==
    /\ proc[p].kind = "admin-cancel" /\ proc[p].pc = "ac-get"
    /\ LET order == orders[proc[p].oid]
           rec == [proc[p] EXCEPT !.ord = order]
       IN  proc' = [proc EXCEPT ![p] =
              IF ~order.exists THEN [Finished(rec) EXCEPT !.result = 404]
              ELSE IF order.status \in {"CANCELLED", "SHIPPING_ALLOCATED"}
                     THEN [Finished(rec) EXCEPT !.result = 400]
              ELSE IF order.paymentIntentId # "none" /\ order.paymentStatus = "succeeded"
                     THEN [rec EXCEPT !.pc = "ac-refund"]
              ELSE AfterAdminRefund(rec)]
    /\ UNCHANGED <<inventory, orders, idem, payments, nproc, calls, lastWrite, sagaStarts, ledger, fnDone>>

\* createRefund creates the refund or throws; the error is swallowed and
\* recorded in operations.
AdminCancelRefund(p) ==
    /\ proc[p].kind = "admin-cancel" /\ proc[p].pc = "ac-refund"
    /\ \E created \in BOOLEAN :
          IF created
            THEN /\ payments' = [payments EXCEPT ![proc[p].oid].refunds = @ + 1]
                 /\ proc' = [proc EXCEPT ![p].pc = "ac-refund-update",
                                         ![p].steps = @ \cup {"payment_refunded"}]
            ELSE /\ proc' = [proc EXCEPT ![p] =
                               AfterAdminRefund([proc[p] EXCEPT !.steps = @ \cup {"payment_refund_failed"}])]
                 /\ UNCHANGED payments
    /\ UNCHANGED <<inventory, orders, idem, nproc, calls, lastWrite, sagaStarts, ledger, fnDone>>

\* orderRepo.updatePaymentInfo: paymentStatus 'refunded'.
AdminCancelRefundUpdate(p) ==
    /\ proc[p].kind = "admin-cancel" /\ proc[p].pc = "ac-refund-update"
    /\ orders' = [orders EXCEPT ![proc[p].oid] = UpdatePaymentInfo(@, [paymentStatus |-> "refunded"])]
    /\ proc' = [proc EXCEPT ![p] = AfterAdminRefund(@)]
    /\ UNCHANGED <<inventory, idem, payments, nproc, calls, lastWrite, sagaStarts, ledger, fnDone>>

\* inventoryRepo.get of the item's row.
AdminCancelReleaseGet(p) ==
    /\ proc[p].kind = "admin-cancel" /\ proc[p].pc = "ac-release-get"
    /\ LET item == proc[p].ord.items[proc[p].i]
           key == KeyOf(item.productId, item.warehouseId)
           row == RepoGet(inventory[key])
       IN  proc' = [proc EXCEPT ![p] =
              IF ~row.exists THEN AdminReleaseFrom(@, @.i + 1)
              ELSE [@ EXCEPT !.key = key, !.cur = row, !.pc = "ac-release"]]
    /\ UNCHANGED <<inventory, orders, idem, payments, nproc, calls, lastWrite, sagaStarts, ledger, fnDone>>

\* inventoryRepo.release with the version just read; a failure is logged
\* and the loop goes on.
AdminCancelRelease(p) ==
    /\ proc[p].kind = "admin-cancel" /\ proc[p].pc = "ac-release"
    /\ LET quantity == proc[p].ord.items[proc[p].i].quantity
           ok == ReleaseCondition(inventory[proc[p].key], quantity, proc[p].cur.version)
       IN  /\ DoWrite("release", proc[p].key, quantity, proc[p].cur.version)
           /\ ledger' = [ledger EXCEPT ![proc[p].oid].held[proc[p].key] =
                            IF ok THEN Max(0, @ - quantity) ELSE @]
    /\ proc' = [proc EXCEPT ![p] = AdminReleaseFrom(@, @.i + 1)]
    /\ UNCHANGED <<orders, idem, payments, nproc, calls, sagaStarts, fnDone>>

\* orderRepo.update: status CANCELLED with the cancel reason; the handler
\* answers 200 with the operations it has recorded.
AdminCancelUpdate(p) ==
    /\ proc[p].kind = "admin-cancel" /\ proc[p].pc = "ac-cancel"
    /\ orders' = [orders EXCEPT ![proc[p].oid] =
                    OrderUpdate(@, [status |-> "CANCELLED", cancelReason |-> "admin_cancelled"])]
    /\ proc' = [proc EXCEPT ![p] = [Finished(proc[p]) EXCEPT !.result = 200, !.ord = proc[p].ord,
                                       !.steps = proc[p].steps \cup {"order_cancelled"}]]
    /\ UNCHANGED <<inventory, idem, payments, nproc, calls, lastWrite, sagaStarts, ledger, fnDone>>

----------------------------------------------------------------------------
(* Saga orchestrator: Reserve -> VerifyPayment -> AllocateShipping, with
   compensation on a step failure and a bounded retry of a step whose
   process was killed. *)

SagaSteps == {"reserve", "payment", "shipping"}

FirstPc(stage) ==
    CASE stage = "reserve" -> "ri-get"
      [] stage = "payment" -> "vp-get"
      [] stage = "shipping" -> "as-get"
      [] OTHER -> "ch-get"

NextStage(stage) ==
    CASE stage = "reserve" -> "payment"
      [] stage = "payment" -> "shipping"
      [] OTHER -> "succeeded"

\* Step retries granted by the orchestration substrate.
MaxTries == 1

\* A step returned: the next step is invoked, or the execution succeeds.
SagaNext(p) ==
    /\ proc[p].kind = "saga" /\ proc[p].pc = "step-returned"
    /\ LET stage == NextStage(proc[p].stage)
       IN  proc' = [proc EXCEPT ![p] = Invoke(@, stage, IF stage = "succeeded" THEN "done" ELSE FirstPc(stage))]
    /\ UNCHANGED <<inventory, orders, idem, payments, nproc, calls, lastWrite, sagaStarts, ledger, fnDone>>

\* A step threw: the compensation handler is invoked.
SagaCatch(p) ==
    /\ proc[p].kind = "saga" /\ proc[p].stage \in SagaSteps
    /\ proc[p].pc \in {"step-threw", "eo-threw"}
    /\ proc' = [proc EXCEPT ![p] = [Invoke(@, "compensate", "ch-get") EXCEPT !.error = proc[p].error]]
    /\ UNCHANGED <<inventory, orders, idem, payments, nproc, calls, lastWrite, sagaStarts, ledger, fnDone>>

\* The process of a step is killed between two store calls; the substrate
\* invokes the step again.
SagaStepKilled(p) ==
    /\ proc[p].kind = "saga" /\ proc[p].stage \in SagaSteps
    /\ proc[p].pc \notin {"step-returned", "step-threw", "eo-threw", FirstPc(proc[p].stage)}
    /\ proc[p].tries < MaxTries
    /\ proc' = [proc EXCEPT ![p] = [Invoke(@, proc[p].stage, FirstPc(proc[p].stage)) EXCEPT !.tries = @ + 1]]
    /\ UNCHANGED <<inventory, orders, idem, payments, nproc, calls, lastWrite, sagaStarts, ledger, fnDone>>

----------------------------------------------------------------------------
(* The fulfilment of one paid order *)

MaxProcsSaga == 4      \* handler invocations per behaviour
SagaStock == 1         \* stock of the first warehouse is 0..SagaStock

OrderItems == <<Item("p1", 1)>>

\* The payment intents the provider may hold for the order: paid in full,
\* paid with another amount, not paid.
PaymentIntents ==
    {[status |-> "succeeded", amount |-> SumQuantity(OrderItems), refunds |-> 0],
     [status |-> "succeeded", amount |-> SumQuantity(OrderItems) + 1, refunds |-> 0],
     [status |-> "requires_payment_method", amount |-> SumQuantity(OrderItems), refunds |-> 0]}

InitSaga ==
    /\ \E q \in 0..SagaStock :
          inventory = [key \in AllKeys |->
                          IF key[2] = "warehouse-east" THEN Row(q, 0, 0, TRUE)
                          ELSE Row(SumQuantity(OrderItems), 0, 0, TRUE)]
    /\ orders = [o \in {"o1"} |-> NewOrder(OrderItems)]
    /\ idem = [k \in {generateOrderKey("o1", "payment-verification")} |-> NoIdem]
    /\ \E paymentIntent \in PaymentIntents : payments = [o \in {"o1"} |-> paymentIntent]
    /\ proc = [p \in 1..MaxProcsSaga |-> IdleProc]
    /\ nproc = 0
    /\ calls = 0
    /\ lastWrite = NoWrite
    /\ sagaStarts = [o \in {"o1"} |-> 0]
    /\ ledger = [o \in {"o1"} |-> NoLedger(orders[o].items)]
    /\ fnDone = [k \in {generateOrderKey("o1", "payment-verification")} |-> 0]

NextSaga ==
    \/ WebhookReceived
    \/ \E p \in Procs : WebhookGet(p)
    \/ \E p \in Procs : WebhookUpdatePaymentInfo(p)
    \/ \E p \in Procs : WebhookStartExecution(p)
    \/ \E p \in Procs : WebhookCancel(p)
    \/ \E p \in Procs : WebhookCancelInfo(p)
    \/ \E p \in Procs : ReserveGetOrder(p)
    \/ \E p \in Procs : ReserveList(p)
    \/ \E p \in Procs : ReserveFresh(p)
    \/ \E p \in Procs : ReserveWrite(p)
    \/ \E p \in Procs : ReserveUpdateOrder(p)
    \/ \E p \in Procs : VerifyGetOrder(p)
    \/ \E p \in Procs : EoCheck(p)
    \/ \E p \in Procs : EoMarkInProgress(p)
    \/ \E p \in Procs : EoMarkCheck(p)
    \/ \E p \in Procs : VerifyFn(p)
    \/ \E p \in Procs : EoMarkCompleted(p)
    \/ \E p \in Procs : EoMarkFailed(p)
    \/ \E p \in Procs : VerifyUpdateOrder(p)
    \/ \E p \in Procs : ShippingGetOrder(p)
    \/ \E p \in Procs : ShippingUpdateOrder(p)
    \/ \E p \in Procs : CompensationGetOrder(p)
    \/ \E p \in Procs : CompensationRefund(p)
    \/ \E p \in Procs : CompensationRefundUpdate(p)
    \/ \E p \in Procs : CompensationReleaseGet(p)
    \/ \E p \in Procs : CompensationRelease(p)
    \/ \E p \in Procs : CompensationCancel(p)
    \/ \E p \in Procs : SagaNext(p)
    \/ \E p \in Procs : SagaCatch(p)
    \/ AdminCancelReceived
    \/ \E p \in Procs : AdminCancelGet(p)
    \/ \E p \in Procs : AdminCancelRefund(p)
    \/ \E p \in Procs : AdminCancelRefundUpdate(p)
    \/ \E p \in Procs : AdminCancelReleaseGet(p)
    \/ \E p \in Procs : AdminCancelRelease(p)
    \/ \E p \in Procs : AdminCancelUpdate(p)

SpecSaga == InitSaga /\ [][NextSaga]_vars

\* The order's status changes only one step forward or to CANCELLED.
Forward ==
    {<<"PENDING", "INVENTORY_RESERVED">>, <<"INVENTORY_RESERVED", "PAYMENT_CONFIRMED">>,
     <<"PAYMENT_CONFIRMED", "SHIPPING_ALLOCATED">>}

\* C2: every change of an order's status is one step forward along
\* PENDING -> INVENTORY_RESERVED -> PAYMENT_CONFIRMED -> SHIPPING_ALLOCATED
\* or a move to CANCELLED.
StatusMovesForward ==
    [][\A o \in Orders :
          orders'[o].status # orders[o].status =>
              \/ orders'[o].status = "CANCELLED"
              \/ <<orders[o].status, orders'[o].status>> \in Forward]_vars

\* C3: once an order is CANCELLED no operation changes its status again.
CancelledIsFinal ==
    [][\A o \in Orders : orders[o].status = "CANCELLED" => orders'[o].status = "CANCELLED"]_vars

\* C5: however often payment_intent.succeeded is delivered, the saga is
\* started at most once for the order.
SagaStartedOnce == \A o \in Orders : sagaStarts[o] <= 1

----------------------------------------------------------------------------
(* One execution of the saga under step retries and step timeouts *)

\* A step exceeded its time budget: it is treated as failed and the
\* compensation handler is invoked.
SagaStepTimedOut(p) ==
    /\ proc[p].kind = "saga" /\ proc[p].stage \in SagaSteps
    /\ proc[p].pc \notin {"step-returned", "step-threw", "eo-threw"}
    /\ proc' = [proc EXCEPT ![p] = [Invoke(@, "compensate", "ch-get") EXCEPT !.error = "States.Timeout"]]
    /\ UNCHANGED <<inventory, orders, idem, payments, nproc, calls, lastWrite, sagaStarts, ledger, fnDone>>

\* The order as the create-order handler that starts the execution itself
\* persists it: PENDING, no payment attributes.
DirectOrder(items) ==
    [NewOrder(items) EXCEPT !.paymentIntentId = "none", !.paymentStatus = "none"]

\* An order of two products.
TwoItems == <<Item("p1", 1), Item("p2", 1)>>

\* The orders an execution is started for: by the webhook, which has
\* recorded the payment, or by create-order directly.
StartedOrders ==
    {UpdatePaymentInfo(NewOrder(OrderItems), [paymentIntentId |-> "pi", paymentStatus |-> "succeeded"]),
     UpdatePaymentInfo(NewOrder(TwoItems), [paymentIntentId |-> "pi", paymentStatus |-> "succeeded"]),
     DirectOrder(OrderItems)}

InitRetry ==
    /\ \E q \in 0..SagaStock :
          inventory = [key \in AllKeys |->
                          IF key[2] = "warehouse-east" THEN Row(q, 0, 0, TRUE)
                          ELSE Row(SumQuantity(OrderItems), 0, 0, TRUE)]
    /\ \E order \in StartedOrders : orders = [o \in {"o1"} |-> order]
    /\ idem = [k \in {generateOrderKey("o1", "payment-verification")} |-> NoIdem]
    /\ \E paymentIntent \in PaymentIntents : payments = [o \in {"o1"} |-> paymentIntent]
    /\ proc = [p \in {1} |-> [IdleProc EXCEPT !.kind = "saga", !.oid = "o1", !.stage = "reserve", !.pc = "ri-get"]]
    /\ nproc = 1
    /\ calls = 0
    /\ lastWrite = NoWrite
    /\ sagaStarts = [o \in {"o1"} |-> 1]
    /\ ledger = [o \in {"o1"} |-> NoLedger(orders[o].items)]
    /\ fnDone = [k \in {generateOrderKey("o1", "payment-verification")} |-> 0]

NextRetry ==
    \/ \E p \in Procs : ReserveGetOrder(p)
    \/ \E p \in Procs : ReserveList(p)
    \/ \E p \in Procs : ReserveFresh(p)
    \/ \E p \in Procs : ReserveWrite(p)
    \/ \E p \in Procs : ReserveUpdateOrder(p)
    \/ \E p \in Procs : VerifyGetOrder(p)
    \/ \E p \in Procs : EoCheck(p)
    \/ \E p \in Procs : EoMarkInProgress(p)
    \/ \E p \in Procs : EoMarkCheck(p)
    \/ \E p \in Procs : VerifyFn(p)
    \/ \E p \in Procs : EoMarkCompleted(p)
    \/ \E p \in Procs : EoMarkFailed(p)
    \/ \E p \in Procs : VerifyUpdateOrder(p)
    \/ \E p \in Procs : ShippingGetOrder(p)
    \/ \E p \in Procs : ShippingUpdateOrder(p)
    \/ \E p \in Procs : CompensationGetOrder(p)
    \/ \E p \in Procs : CompensationRefund(p)
    \/ \E p \in Procs : CompensationRefundUpdate(p)
    \/ \E p \in Procs : CompensationReleaseGet(p)
    \/ \E p \in Procs : CompensationRelease(p)
    \/ \E p \in Procs : CompensationCancel(p)
    \/ \E p \in Procs : SagaNext(p)
    \/ \E p \in Procs : SagaCatch(p)
    \/ \E p \in Procs : SagaStepKilled(p)
    \/ \E p \in Procs : SagaStepTimedOut(p)

SpecRetry == InitRetry /\ [][NextRetry]_vars

\* C6: the quantity added to reserved for an order item over all
\* ReserveInventory invocations is at most the item's quantity.
ReservedOncePerOrder ==
    \A o \in Orders : \A i \in 1..Len(orders[o].items) :
        ledger[o].added[i] <= orders[o].items[i].quantity

\* C7: when the compensation handler has returned for an order it read in
\* PAYMENT_CONFIRMED, the order is refunded and CANCELLED and holds no
\* reservation.
CompensationComplete ==
    \A p \in Procs :
        (proc[p].stage = "compensate" /\ proc[p].pc = "ch-returned"
            /\ proc[p].ord.status = "PAYMENT_CONFIRMED")
        => /\ orders[proc[p].oid].paymentStatus = "refunded"
           /\ orders[proc[p].oid].status = "CANCELLED"
           /\ Held(proc[p].oid) = 0

----------------------------------------------------------------------------
(* Oversell: more orders of quantity 1 than one row has stock *)

OversellOrders == 3    \* M: orders running ReserveInventory concurrently
OversellStock == 2     \* K: quantity of the single row

OrderNames == <<"o1", "o2", "o3", "o4">>

OversellKey == KeyOf("p1", "warehouse-east")

InitOversell ==
    /\ inventory = [key \in {OversellKey} |-> Row(OversellStock, 0, 0, TRUE)]
    /\ orders = [o \in {OrderNames[n] : n \in 1..OversellOrders} |->
                    UpdatePaymentInfo(NewOrder(OrderItems), [paymentIntentId |-> "pi", paymentStatus |-> "succeeded"])]
    /\ idem = [k \in {} |-> NoIdem]
    /\ payments = [o \in {OrderNames[n] : n \in 1..OversellOrders} |->
                      [status |-> "succeeded", amount |-> SumQuantity(OrderItems), refunds |-> 0]]
    /\ proc = [p \in 1..OversellOrders |->
                  [IdleProc EXCEPT !.kind = "saga", !.oid = OrderNames[p], !.stage = "reserve", !.pc = "ri-get"]]
    /\ nproc = OversellOrders
    /\ calls = 0
    /\ lastWrite = NoWrite
    /\ sagaStarts = [o \in {OrderNames[n] : n \in 1..OversellOrders} |-> 1]
    /\ ledger = [o \in {OrderNames[n] : n \in 1..OversellOrders} |-> NoLedger(OrderItems)]
    /\ fnDone = [k \in {} |-> 0]

NextOversell ==
    \/ \E p \in Procs : ReserveGetOrder(p)
    \/ \E p \in Procs : ReserveList(p)
    \/ \E p \in Procs : ReserveFresh(p)
    \/ \E p \in Procs : ReserveWrite(p)
    \/ \E p \in Procs : ReserveUpdateOrder(p)
    \/ \E p \in Procs : SagaCatch(p)
    \/ \E p \in Procs : CompensationGetOrder(p)
    \/ \E p \in Procs : CompensationCancel(p)

SpecOversell == InitOversell /\ [][NextOversell]_vars

\* Every execution is over: its step returned or its compensation did.
Quiescent == \A p \in Procs : proc[p].pc \in {"step-returned", "ch-returned"}

WithStatus(status) == {o \in Orders : orders[o].status = status}

Min(a, b) == IF a <= b THEN a ELSE b

\* C9: of M orders of quantity 1 against a row with quantity K < M, exactly
\* K end INVENTORY_RESERVED and M - K end CANCELLED, and no step fails
\* while the row still has stock for it.
ExactlyStockReserved ==
    /\ Quiescent =>
          /\ Cardinality(WithStatus("INVENTORY_RESERVED")) = Min(OversellStock, OversellOrders)
          /\ Cardinality(WithStatus("CANCELLED")) = OversellOrders - Min(OversellStock, OversellOrders)
    /\ \A p \in Procs :
          proc[p].pc = "step-threw" =>
              \A key \in Keys :
                  inventory[key].quantity - StoredReserved(inventory[key]) < proc[p].ord.items[proc[p].i].quantity

\* C10: a reserve write that fails its condition is retried on the same
\* warehouse after a re-read, up to three attempts, and then the next
\* candidate warehouse is tried; the conflict does not leave the step.
ConflictRetried ==
    [][\A p \in Procs :
          (proc[p].pc = "ri-reserve" /\ proc'[p] # proc[p] /\ ~lastWrite'.ok)
          => proc'[p] = AfterReserveError(proc[p], "ConditionalCheckFailedException")]_vars

\* The provider holds a succeeded intent of the order's amount for an order
\* that names its intent.
ProviderReportsPaid(o) ==
    /\ orders[o].paymentIntentId # "none"
    /\ payments[o].status = "succeeded"
    /\ payments[o].amount = orders[o].totalAmount

\* C11: an order is PAYMENT_CONFIRMED only after the provider reported its
\* intent succeeded with the order's amount; otherwise VerifyPayment never
\* returns and never writes: the status is not PAYMENT_CONFIRMED and every
\* VerifyPayment invocation that got past its lookup fails.
ConfirmedOnlyWhenPaid ==
    \A o \in Orders :
        /\ orders[o].status \in {"PAYMENT_CONFIRMED", "SHIPPING_ALLOCATED"} =>
              /\ ProviderReportsPaid(o)
              /\ fnDone[generateOrderKey(o, "payment-verification")] >= 1
        /\ ~ProviderReportsPaid(o) =>
              \A p \in Procs :
                  (proc[p].oid = o /\ proc[p].stage = "payment") =>
                      proc[p].pc \notin {"eo-complete", "eo-returned", "step-returned"}

\* VerifyPayment has returned and the paid order is PAYMENT_CONFIRMED.
ConfirmedWitness ==
    \E p \in Procs :
        /\ proc[p].stage = "payment" /\ proc[p].pc = "step-returned"
        /\ orders[proc[p].oid].status = "PAYMENT_CONFIRMED"
        /\ ProviderReportsPaid(proc[p].oid)

----------------------------------------------------------------------------
(* Webhook ingress: signature verification *)

MaxProcsWebhook == 3   \* webhook requests and the executions they start

\* The Stripe-Signature header of a request: none, one that verifies
\* against the raw body, one that does not.
Signatures == {"absent", "valid", "invalid"}

\* getWebhookSecret: the secret from Secrets Manager, null when it is not
\* there or the fetch fails.
getWebhookSecret(configured, fetched) == IF configured /\ fetched THEN "whsec" ELSE "none"

\* Whether the handler goes on to dispatch the event: constructEvent runs
\* only when there is a secret and a signature header, otherwise the body
\* is parsed as it is.
Accepts(webhookSecret, signature) ==
    IF webhookSecret # "none" /\ signature # "absent"
      THEN signature = "valid"
      ELSE TRUE

\* The handler up to the dispatch on the event type: 400 when
\* constructEvent throws, otherwise the event's handler runs.
WebhookRequest ==
    /\ Invocations("webhook") < MaxDeliveries
    /\ \E o \in Orders, type \in WebhookEvents, configured \in BOOLEAN, fetched \in BOOLEAN,
          signature \in Signatures :
          LET webhookSecret == getWebhookSecret(configured, fetched)
              rec == [IdleProc EXCEPT !.kind = "webhook", !.oid = o, !.stage = type,
                                      !.configured = configured, !.webhookSecret = webhookSecret,
                                      !.signature = signature]
          IN  Start(IF Accepts(webhookSecret, signature)
                      THEN [rec EXCEPT !.pc = IF type = "payment_intent.succeeded"
                                                THEN "wh-get" ELSE "wh-cancel"]
                      ELSE [rec EXCEPT !.pc = "done", !.result = 400])
    /\ UNCHANGED <<inventory, orders, idem, payments, calls, lastWrite, sagaStarts, ledger, fnDone>>

InitWebhook ==
    /\ inventory = [key \in AllKeys |-> Row(SumQuantity(OrderItems), 0, 0, TRUE)]
    /\ orders = [o \in {"o1"} |-> NewOrder(OrderItems)]
    /\ idem = [k \in {generateOrderKey("o1", "payment-verification")} |-> NoIdem]
    /\ \E paymentIntent \in PaymentIntents : payments = [o \in {"o1"} |-> paymentIntent]
    /\ proc = [p \in 1..MaxProcsWebhook |-> IdleProc]
    /\ nproc = 0
    /\ calls = 0
    /\ lastWrite = NoWrite
    /\ sagaStarts = [o \in {"o1"} |-> 0]
    /\ ledger = [o \in {"o1"} |-> NoLedger(orders[o].items)]
    /\ fnDone = [k \in {generateOrderKey("o1", "payment-verification")} |-> 0]

NextWebhook ==
    \/ WebhookRequest
    \/ \E p \in Procs : WebhookGet(p)
    \/ \E p \in Procs : WebhookUpdatePaymentInfo(p)
    \/ \E p \in Procs : WebhookStartExecution(p)
    \/ \E p \in Procs : WebhookCancel(p)
    \/ \E p \in Procs : WebhookCancelInfo(p)

SpecWebhook == InitWebhook /\ [][NextWebhook]_vars

\* The positions of a webhook handler that processes its event.
Processing == {"wh-get", "wh-update", "wh-start", "wh-cancel", "wh-cancel-info"}

\* C12: with a signing secret configured, only a request whose signature
\* verifies is processed; an invalid or absent signature is answered 400
\* and reaches no order write and no saga start.
SignatureRequired ==
    \A p \in Procs :
        (proc[p].kind = "webhook" /\ proc[p].configured /\ proc[p].signature # "valid")
        => (proc[p].pc \notin Processing /\ proc[p].result = 400)

----------------------------------------------------------------------------
(* One execution of the saga next to an admin cancel, under fair
   scheduling of the handlers and the orchestrator *)

MaxProcsLive == 2      \* the execution and one admin cancel request

InitLive ==
    /\ \E q \in 0..SagaStock :
          inventory = [key \in AllKeys |->
                          IF key[2] = "warehouse-east" THEN Row(q, 0, 0, TRUE)
                          ELSE Row(SumQuantity(OrderItems), 0, 0, TRUE)]
    /\ \E order \in StartedOrders : orders = [o \in {"o1"} |-> order]
    /\ idem = [k \in {generateOrderKey("o1", "payment-verification")} |-> NoIdem]
    /\ \E paymentIntent \in PaymentIntents : payments = [o \in {"o1"} |-> paymentIntent]
    /\ proc = [p \in 1..MaxProcsLive |->
                  IF p = 1
                    THEN [IdleProc EXCEPT !.kind = "saga", !.oid = "o1", !.stage = "reserve", !.pc = "ri-get"]
                    ELSE IdleProc]
    /\ nproc = 1
    /\ calls = 0
    /\ lastWrite = NoWrite
    /\ sagaStarts = [o \in {"o1"} |-> 1]
    /\ ledger = [o \in {"o1"} |-> NoLedger(orders[o].items)]
    /\ fnDone = [k \in {generateOrderKey("o1", "payment-verification")} |-> 0]

\* The steps of the handlers and of the orchestrator; once invoked they
\* run on.
LiveSteps ==
    \/ \E p \in Procs : ReserveGetOrder(p)
    \/ \E p \in Procs : ReserveList(p)
    \/ \E p \in Procs : ReserveFresh(p)
    \/ \E p \in Procs : ReserveWrite(p)
    \/ \E p \in Procs : ReserveUpdateOrder(p)
    \/ \E p \in Procs : VerifyGetOrder(p)
    \/ \E p \in Procs : EoCheck(p)
    \/ \E p \in Procs : EoMarkInProgress(p)
    \/ \E p \in Procs : EoMarkCheck(p)
    \/ \E p \in Procs : VerifyFn(p)
    \/ \E p \in Procs : EoMarkCompleted(p)
    \/ \E p \in Procs : EoMarkFailed(p)
    \/ \E p \in Procs : VerifyUpdateOrder(p)
    \/ \E p \in Procs : ShippingGetOrder(p)
    \/ \E p \in Procs : ShippingUpdateOrder(p)
    \/ \E p \in Procs : CompensationGetOrder(p)
    \/ \E p \in Procs : CompensationRefund(p)
    \/ \E p \in Procs : CompensationRefundUpdate(p)
    \/ \E p \in Procs : CompensationReleaseGet(p)
    \/ \E p \in Procs : CompensationRelease(p)
    \/ \E p \in Procs : CompensationCancel(p)
    \/ \E p \in Procs : SagaNext(p)
    \/ \E p \in Procs : SagaCatch(p)
    \/ \E p \in Procs : AdminCancelGet(p)
    \/ \E p \in Procs : AdminCancelRefund(p)
    \/ \E p \in Procs : AdminCancelRefundUpdate(p)
    \/ \E p \in Procs : AdminCancelReleaseGet(p)
    \/ \E p \in Procs : AdminCancelRelease(p)
    \/ \E p \in Procs : AdminCancelUpdate(p)

\* What the environment does to the execution: a kill, a timeout, an
\* admin cancel request.
LiveEnvironment ==
    \/ \E p \in Procs : SagaStepKilled(p)
    \/ \E p \in Procs : SagaStepTimedOut(p)
    \/ AdminCancelReceived

NextLive == LiveSteps \/ LiveEnvironment

SpecLive == InitLive /\ [][NextLive]_vars /\ WF_vars(LiveSteps)

\* An execution is over as the claim says: succeeded with the order
\* SHIPPING_ALLOCATED, or compensated with the order CANCELLED.
EndedAsClaimed(p) ==
    \/ /\ proc[p].stage = "succeeded" /\ proc[p].pc = "done"
       /\ orders[proc[p].oid].status = "SHIPPING_ALLOCATED"
    \/ /\ proc[p].stage = "compensate" /\ proc[p].pc = "ch-returned"
       /\ orders[proc[p].oid].status = "CANCELLED"

\* C13: every saga execution eventually terminates with the order in
\* SHIPPING_ALLOCATED or, after a step failure, compensated with the order
\* in CANCELLED.
SagaEndsShippedOrCancelled ==
    <>(\A p \in Procs : proc[p].kind = "saga" => EndedAsClaimed(p))

\* C14: when VerifyPayment failed because the provider's amount differs
\* from order.totalAmount, then once compensation has returned the order is
\* CANCELLED, its paymentStatus is refunded and nothing is held for it.
MismatchCompensated ==
    \A p \in Procs :
        (/\ proc[p].stage = "compensate" /\ proc[p].pc = "ch-returned"
         /\ proc[p].error = "Payment verification failed"
         /\ orders[proc[p].oid].paymentIntentId # "none"
         /\ payments[proc[p].oid].status = "succeeded"
         /\ payments[proc[p].oid].amount # orders[proc[p].oid].totalAmount)
        => /\ orders[proc[p].oid].status = "CANCELLED"
           /\ orders[proc[p].oid].paymentStatus = "refunded"
           /\ Held(proc[p].oid) = 0

----------------------------------------------------------------------------
(* One execution of the saga in which a step that returned is invoked a
   second time with the same input *)

\* The task's result was lost or the task redelivered: the step that just
\* returned is invoked again, once per execution.
SagaStepReplayed(p) ==
    /\ proc[p].kind = "saga" /\ proc[p].stage \in SagaSteps
    /\ proc[p].pc = "step-returned"
    /\ proc[p].replay = "none"
    /\ proc' = [proc EXCEPT ![p] =
                   [Invoke(@, proc[p].stage, FirstPc(proc[p].stage)) EXCEPT !.replay = "now"]]
    /\ UNCHANGED <<inventory, orders, idem, payments, nproc, calls, lastWrite, sagaStarts, ledger, fnDone>>

NextReplay ==
    \/ NextRetry
    \/ \E p \in Procs : SagaStepReplayed(p)

SpecReplay == InitRetry /\ [][NextReplay]_vars

\* C15: a second invocation of VerifyPayment or AllocateShipping after the
\* first one succeeded writes nothing to the stores, calls no external
\* service and returns as the first did: it does not fail.
ReplayIsNoOp ==
    [][\A p \in Procs :
          (proc[p].replay = "now" /\ proc[p].stage \in {"payment", "shipping"}
              /\ proc'[p].replay = "now")
          => /\ orders' = orders /\ idem' = idem /\ inventory' = inventory /\ payments' = payments
             /\ proc'[p].pc \notin {"step-threw", "eo-threw", "eo-fn", "eo-fail"}]_vars

\* C16: ReserveInventory invoked on an order that is INVENTORY_RESERVED
\* already writes neither inventory nor order and returns reservedItems
\* with the warehouse of each item as the reserving invocation returned it.
ReserveReplayReturnsReservation ==
    [][\A p \in Procs :
          (proc[p].replay = "now" /\ proc[p].stage = "reserve" /\ proc'[p].replay = "now")
          => /\ orders' = orders /\ inventory' = inventory
             /\ proc'[p].pc = "step-returned"
             /\ proc'[p].reservedItems = ledger[proc[p].oid].reservedItems]_vars

\* A replayed ReserveInventory has returned for an order of two products
\* with a reservation outside the default warehouse.
ReserveReplayWitness ==
    \E p \in Procs :
        /\ proc[p].replay = "now" /\ proc[p].stage = "reserve" /\ proc[p].pc = "step-returned"
        /\ Len(proc[p].reservedItems) = 2
        /\ proc[p].reservedItems[1].warehouseId = "warehouse-west"
        /\ orders[proc[p].oid].status = "INVENTORY_RESERVED"

----------------------------------------------------------------------------
\* C21: handling payment_intent.succeeded for an order that is not PENDING
\* writes nothing to the order and starts no saga execution.
DuplicateWebhookSkipped ==
    [][\A p \in Procs :
          (proc[p].kind = "webhook" /\ proc[p].stage = "payment_intent.succeeded"
              /\ orders[proc[p].oid].status # "PENDING" /\ proc[p].pc = "wh-get" /\ Steps(p))
          => /\ orders' = orders /\ sagaStarts' = sagaStarts /\ nproc' = nproc
             /\ proc'[p].pc = "done"]_vars

\* A payment_intent.succeeded delivery has been skipped for an order whose
\* execution, started by an earlier delivery, has reserved the inventory.
DuplicateWebhookWitness ==
    \E p \in Procs :
        /\ proc[p].kind = "webhook" /\ proc[p].stage = "duplicate" /\ proc[p].pc = "done"
        /\ orders[proc[p].oid].status = "INVENTORY_RESERVED"
        /\ sagaStarts[proc[p].oid] = 1

----------------------------------------------------------------------------
(* The compensation handler, invoked on an order in any status *)

MaxProcsComp == 2     \* compensation invocations per behaviour

OrderStatuses ==
    {"PENDING", "INVENTORY_RESERVED", "PAYMENT_CONFIRMED", "SHIPPING_ALLOCATED", "CANCELLED"}

\* failedStep of the handler's input: 'INVENTORY' | 'PAYMENT' | 'SHIPPING'.
FailedSteps == {"INVENTORY", "PAYMENT", "SHIPPING"}

\* The statuses in which the order's items are reserved.
ReservedStatuses == {"INVENTORY_RESERVED", "PAYMENT_CONFIRMED", "SHIPPING_ALLOCATED"}

\* The items as ReserveInventory persists them, all reserved in warehouse w.
ReservedAt(items, w) == [n \in 1..Len(items) |-> [items[n] EXCEPT !.warehouseId = w]]

\* The quantity an order of these items holds reserved on a row.
RECURSIVE QuantityOn(_, _)
QuantityOn(items, key) ==
    IF items = <<>> THEN 0
    ELSE (IF KeyOf(items[1].productId, items[1].warehouseId) = key THEN items[1].quantity ELSE 0)
            + QuantityOn(Tail(items), key)

\* A paid order as the saga has brought it to a status: items reserved
\* from INVENTORY_RESERVED on; a CANCELLED order is one compensated after
\* the payment was confirmed. updatedAt counts the clock from here.
StoredOrder(status, items, w) ==
    LET paid == UpdatePaymentInfo(NewOrder(items),
                    [paymentIntentId |-> "pi",
                     paymentStatus |-> IF status = "CANCELLED" THEN "refunded" ELSE "succeeded"])
    IN  [f \in DOMAIN paid \cup {"updatedAt"} |->
            CASE f = "status" -> status
              [] f = "items" -> IF status = "PENDING" THEN items ELSE ReservedAt(items, w)
              [] f = "updatedAt" -> 0
              [] OTHER -> paid[f]]

InitCompensation ==
    /\ \E status \in OrderStatuses, items \in {OrderItems, TwoItems}, w \in Warehouses :
          LET order == StoredOrder(status, items, w)
              held == [key \in AllKeys |->
                          IF status \in ReservedStatuses THEN QuantityOn(order.items, key) ELSE 0]
          IN  /\ orders = [o \in {"o1"} |-> order]
              /\ inventory = [key \in AllKeys |-> Row(SumQuantity(TwoItems), held[key], 1, TRUE)]
              /\ ledger = [o \in {"o1"} |-> [NoLedger(items) EXCEPT !.held = held]]
              /\ payments = [o \in {"o1"} |->
                               [status |-> "succeeded", amount |-> order.totalAmount,
                                refunds |-> IF status = "CANCELLED" THEN 1 ELSE 0]]
    /\ idem = [k \in {generateOrderKey("o1", "payment-verification")} |-> NoIdem]
    /\ proc = [p \in 1..MaxProcsComp |-> IdleProc]
    /\ nproc = 0
    /\ calls = 0
    /\ lastWrite = NoWrite
    /\ sagaStarts = [o \in {"o1"} |-> 1]
    /\ fnDone = [k \in {generateOrderKey("o1", "payment-verification")} |-> 0]

\* The handler is invoked with {orderId, failedStep, error}.
CompensationInvoked ==
    /\ \E o \in Orders, failedStep \in FailedSteps :
          Start([IdleProc EXCEPT !.kind = "saga", !.oid = o, !.stage = "compensate", !.pc = "ch-get",
                                 !.failedStep = failedStep, !.error = "step failed"])
    /\ UNCHANGED <<inventory, orders, idem, payments, calls, lastWrite, sagaStarts, ledger, fnDone>>

\* The handler's process is killed between two of its calls.
CompensationKilled(p) ==
    /\ proc[p].stage = "compensate"
    /\ proc[p].pc \in {"ch-refund", "ch-refund-update", "ch-release-get", "ch-release", "ch-cancel"}
    /\ proc' = [proc EXCEPT ![p].stage = "killed"]
    /\ UNCHANGED <<inventory, orders, idem, payments, nproc, calls, lastWrite, sagaStarts, ledger, fnDone>>

NextCompensation ==
    \/ CompensationInvoked
    \/ \E p \in Procs : CompensationGetOrder(p)
    \/ \E p \in Procs : CompensationRefund(p)
    \/ \E p \in Procs : CompensationRefundUpdate(p)
    \/ \E p \in Procs : CompensationReleaseGet(p)
    \/ \E p \in Procs : CompensationRelease(p)
    \/ \E p \in Procs : CompensationCancel(p)
    \/ \E p \in Procs : CompensationKilled(p)

SpecCompensation == InitCompensation /\ [][NextCompensation]_vars

\* The compensation runs that have read their order.
CompensationRuns ==
    {p \in Procs : proc[p].stage \in {"compensate", "killed"} /\ proc[p].pc # "ch-get" /\ proc[p].ord.exists}

\* What a run has attempted so far, by the status it observed.
ActsByStatus(p) ==
    LET status == proc[p].ord.status
        pc == proc[p].pc
    IN  /\ status \in {"PAYMENT_CONFIRMED", "SHIPPING_ALLOCATED"} => proc[p].ord.paymentIntentId # "none"
        /\ pc \in {"ch-refund", "ch-refund-update"}
              => status \in {"PAYMENT_CONFIRMED", "SHIPPING_ALLOCATED"}
        /\ pc \in {"ch-release-get", "ch-release"}
              => status \in {"INVENTORY_RESERVED", "PAYMENT_CONFIRMED", "SHIPPING_ALLOCATED"}
        /\ pc \in {"ch-release-get", "ch-release", "ch-cancel", "ch-returned"}
              => ("PAYMENT_REFUNDED" \in proc[p].steps
                    <=> status \in {"PAYMENT_CONFIRMED", "SHIPPING_ALLOCATED"})
        /\ pc \in {"ch-cancel", "ch-returned"}
              => ("INVENTORY_RELEASED" \in proc[p].steps
                    <=> status \in {"INVENTORY_RESERVED", "PAYMENT_CONFIRMED", "SHIPPING_ALLOCATED"})

CancelledCompensationIsNoOp ==
    [][\A p \in Procs :
          (proc[p].stage = "compensate" /\ Steps(p)
              /\ orders[proc[p].oid].status = "CANCELLED"
              /\ (proc[p].pc # "ch-get" => proc[p].ord.status = "CANCELLED"))
          => orders' = orders /\ inventory' = inventory /\ payments' = payments]_vars

\* The run is the only invocation so far.
RunsAlone(p) == \A q \in Procs \ {p} : proc[q].pc = "idle"

\* C24: within one compensation run the refund call comes before any
\* inventory release and every release before the CANCELLED write; a run
\* killed right after the refund leaves the reservations held and the
\* order not CANCELLED.
RefundThenReleaseThenCancel ==
    /\ [][\A p \in Procs :
            (proc[p].stage = "compensate" /\ Steps(p))
            => /\ payments' # payments => proc[p].pc = "ch-refund" /\ proc[p].i = 0
               /\ inventory' # inventory
                     => /\ proc[p].pc = "ch-release"
                        /\ needsPaymentRefund(proc[p].ord) => "PAYMENT_REFUNDED" \in proc[p].steps
               /\ orders'[proc[p].oid].status # orders[proc[p].oid].status
                     => /\ proc[p].pc = "ch-cancel"
                        /\ needsInventoryRelease(proc[p].ord) => "INVENTORY_RELEASED" \in proc[p].steps]_vars
    /\ [](\A p \in Procs :
            (/\ proc[p].stage = "killed" /\ RunsAlone(p)
             /\ \/ proc[p].pc = "ch-refund-update"
                \/ proc[p].pc = "ch-release-get" /\ proc[p].i = 1)
            => /\ Held(proc[p].oid) = SumQuantity(proc[p].ord.items)
               /\ orders[proc[p].oid].status = proc[p].ord.status
               /\ orders[proc[p].oid].status # "CANCELLED")

\* A run on a SHIPPING_ALLOCATED order has been killed after its refund
\* was created and recorded, before its first release.
KilledAfterRefundWitness ==
    \E p \in Procs :
        /\ proc[p].stage = "killed" /\ RunsAlone(p)
        /\ proc[p].pc = "ch-release-get" /\ proc[p].i = 1
        /\ proc[p].ord.status = "SHIPPING_ALLOCATED"
        /\ payments[proc[p].oid].refunds = 1
        /\ orders[proc[p].oid].paymentStatus = "refunded"
        /\ Held(proc[p].oid) = 2

\* C25: the compensation handler never throws, and when the refund or the
\* release of an item failed in it, it returns success = false and
\* compensatedSteps without the step that failed.
CompensationReportsFailures ==
    \A p \in Procs :
        (proc[p].stage = "compensate" /\ proc[p].pc = "ch-returned" /\ proc[p].failed # {})
        => /\ proc[p].result = 0
           /\ "refund" \in proc[p].failed => "PAYMENT_REFUNDED" \notin proc[p].steps
           /\ "release" \in proc[p].failed => "INVENTORY_RELEASED" \notin proc[p].steps

----------------------------------------------------------------------------
(* The reaper: scheduled cleanup of abandoned carts *)

MaxTicks == 2         \* reaper ticks per behaviour; they may overlap
MaxAge == 3           \* the clock stops counting an order's age here

\* Time is counted in units of 5 minutes; the timeout is the environment's
\* ABANDONED_CART_TIMEOUT_MINUTES = 10.
ABANDONED_CART_TIMEOUT == 2
REMINDER_EMAIL_THRESHOLD == ABANDONED_CART_TIMEOUT - 1
SEND_REMINDER_EMAILS == TRUE

ReaperOrders == {"o1", "o2"}
\* The status-createdAt index returns the orders of a status by createdAt.
ReaperOrderSeq == <<"o1", "o2">>

\* An order of the table with its age (now - createdAt) and the
\* reminder flag of its metadata; its item is reserved in warehouse-east
\* once the order is INVENTORY_RESERVED.
ReaperOrder(status, paymentStatus, age) ==
    LET order == NewOrder(IF status = "PENDING" THEN OrderItems ELSE ReservedAt(OrderItems, "warehouse-east"))
    IN  [f \in DOMAIN order \cup {"age", "reminderEmailSent"} |->
            CASE f = "status" -> status
              [] f = "paymentStatus" -> paymentStatus
              [] f = "age" -> age
              [] f = "reminderEmailSent" -> FALSE
              [] OTHER -> order[f]]

\* The orders the table can hold before any payment webhook is handled,
\* and reserved orders whose payment has been recorded.
ReaperOrderKinds ==
    {<<"PENDING", "pending">>, <<"INVENTORY_RESERVED", "pending">>, <<"INVENTORY_RESERVED", "succeeded">>}

InitReaper ==
    /\ \E kind \in [ReaperOrders -> ReaperOrderKinds], age \in [ReaperOrders -> 0..1] :
          /\ orders = [o \in ReaperOrders |-> ReaperOrder(kind[o][1], kind[o][2], age[o])]
          /\ ledger = [o \in ReaperOrders |->
                          [added |-> <<0>>,
                           held |-> [key \in AllKeys |->
                                       IF kind[o][1] = "INVENTORY_RESERVED"
                                         THEN QuantityOn(ReservedAt(OrderItems, "warehouse-east"), key)
                                         ELSE 0],
                           reservedItems |-> <<>>, reminders |-> 0]]
    /\ inventory = [key \in AllKeys |->
                      Row(Cardinality(ReaperOrders) * SumQuantity(OrderItems),
                          ledger["o1"].held[key] + ledger["o2"].held[key], 1, TRUE)]
    /\ idem = [k \in {generateOrderKey("o1", "payment-verification")} |-> NoIdem]
    /\ payments = [o \in ReaperOrders |->
                      [status |-> IF orders[o].paymentStatus = "succeeded"
                                    THEN "succeeded" ELSE "requires_payment_method",
                       amount |-> orders[o].totalAmount, refunds |-> 0]]
    /\ proc = [p \in 1..MaxTicks |-> IdleProc]
    /\ nproc = 0
    /\ calls = 0
    /\ lastWrite = NoWrite
    /\ sagaStarts = [o \in ReaperOrders |-> 0]
    /\ fnDone = [k \in {generateOrderKey("o1", "payment-verification")} |-> 0]

\* The clock advances by one unit.
TimePasses ==
    /\ \E o \in Orders : orders[o].age < MaxAge
    /\ orders' = [o \in Orders |-> [orders[o] EXCEPT !.age = Min(@ + 1, MaxAge)]]
    /\ UNCHANGED <<inventory, idem, payments, proc, nproc, calls, lastWrite, sagaStarts, ledger, fnDone>>

\* The scheduler fires the handler.
ReaperTick ==
    /\ Start([IdleProc EXCEPT !.kind = "reaper", !.pc = "rp-query"])
    /\ UNCHANGED <<inventory, orders, idem, payments, calls, lastWrite, sagaStarts, ledger, fnDone>>

\* getReservedOrders: the orders of status INVENTORY_RESERVED, as read.
RECURSIVE ReservedFrom(_)
ReservedFrom(n) ==
    IF n > Len(ReaperOrderSeq) THEN <<>>
    ELSE LET o == ReaperOrderSeq[n]
         IN  (IF orders[o].status = "INVENTORY_RESERVED"
                THEN <<[orderId |-> o, order |-> orders[o]]>> ELSE <<>>) \o ReservedFrom(n + 1)

getReservedOrders == ReservedFrom(1)

\* The handler's categorization of one order read.
IsAbandoned(order) ==
    order.paymentStatus = "pending" /\ order.age > ABANDONED_CART_TIMEOUT

NeedsReminder(order) ==
    /\ order.paymentStatus = "pending"
    /\ ~(order.age > ABANDONED_CART_TIMEOUT)
    /\ SEND_REMINDER_EMAILS
    /\ order.age >= REMINDER_EMAIL_THRESHOLD
    /\ ~order.reminderEmailSent

RECURSIVE Abandoned(_)
Abandoned(read) ==
    IF read = <<>> THEN <<>>
    ELSE (IF IsAbandoned(read[1].order) THEN <<read[1]>> ELSE <<>>) \o Abandoned(Tail(read))

RECURSIVE NeedingReminders(_)
NeedingReminders(read) ==
    IF read = <<>> THEN <<>>
    ELSE (IF NeedsReminder(read[1].order) THEN <<read[1]>> ELSE <<>>) \o NeedingReminders(Tail(read))

\* processAbandonedOrder from item i on: items without warehouseId are
\* skipped; after the last item the order is cancelled.
RECURSIVE ReaperReleaseFrom(_, _)
ReaperReleaseFrom(rec, i) ==
    IF i > Len(rec.ord.items) THEN [rec EXCEPT !.pc = "rp-cancel"]
    ELSE IF rec.ord.items[i].warehouseId = "none" THEN ReaperReleaseFrom(rec, i + 1)
    ELSE [rec EXCEPT !.i = i, !.pc = "rp-release-get"]

\* The loop over abandonedOrders from the n-th on.
NextAbandoned(rec, n) ==
    IF n > Len(rec.abandonedOrders) THEN Finished(rec)
    ELSE ReaperReleaseFrom([rec EXCEPT !.n = n, !.oid = rec.abandonedOrders[n].orderId,
                                       !.ord = rec.abandonedOrders[n].order], 1)

\* The loop over ordersNeedingReminders from the n-th on, then the
\* abandoned orders.
NextReminder(rec, n) ==
    IF n > Len(rec.ordersNeedingReminders) THEN NextAbandoned(rec, 1)
    ELSE [rec EXCEPT !.n = n, !.oid = rec.ordersNeedingReminders[n].orderId,
                     !.ord = rec.ordersNeedingReminders[n].order, !.pc = "rp-email"]

\* The query and the categorization by age and payment status.
ReaperQuery(p) ==
    /\ proc[p].kind = "reaper" /\ proc[p].pc = "rp-query"
    /\ LET reservedOrders == getReservedOrders
       IN  proc' = [proc EXCEPT ![p] =
                      NextReminder([proc[p] EXCEPT !.abandonedOrders = Abandoned(reservedOrders),
                                                   !.ordersNeedingReminders = NeedingReminders(reservedOrders)], 1)]
    /\ UNCHANGED <<inventory, orders, idem, payments, nproc, calls, lastWrite, sagaStarts, ledger, fnDone>>

\* sendReminderEmail: the email is delivered, or the adapter throws and
\* the handler goes on with the next order.
ReaperSendEmail(p, sent) ==
    /\ proc[p].kind = "reaper" /\ proc[p].pc = "rp-email"
    /\ IF sent
         THEN /\ ledger' = [ledger EXCEPT ![proc[p].oid].reminders = @ + 1]
              /\ proc' = [proc EXCEPT ![p].pc = "rp-mark"]
         ELSE /\ proc' = [proc EXCEPT ![p] = NextReminder(proc[p], proc[p].n + 1)]
              /\ UNCHANGED ledger
    /\ UNCHANGED <<inventory, orders, idem, payments, nproc, calls, lastWrite, sagaStarts, fnDone>>

\* sendReminderEmail: orderRepo.update of the metadata read by the query
\* with reminderEmailSent = true; the write succeeds or throws.
ReaperMarkReminder(p, ok) ==
    /\ proc[p].kind = "reaper" /\ proc[p].pc = "rp-mark"
    /\ orders' = [orders EXCEPT ![proc[p].oid] =
                    IF ok THEN OrderUpdate(@, [cancelReason |-> proc[p].ord.cancelReason,
                                               reminderEmailSent |-> TRUE])
                    ELSE @]
    /\ proc' = [proc EXCEPT ![p] = NextReminder(proc[p], proc[p].n + 1)]
    /\ UNCHANGED <<inventory, idem, payments, nproc, calls, lastWrite, sagaStarts, ledger, fnDone>>

\* processAbandonedOrder: inventoryRepo.get of the item's row.
ReaperReleaseGet(p) ==
    /\ proc[p].kind = "reaper" /\ proc[p].pc = "rp-release-get"
    /\ LET item == proc[p].ord.items[proc[p].i]
           key == KeyOf(item.productId, item.warehouseId)
           row == RepoGet(inventory[key])
       IN  proc' = [proc EXCEPT ![p] =
              IF ~row.exists THEN ReaperReleaseFrom(proc[p], proc[p].i + 1)
              ELSE [proc[p] EXCEPT !.key = key, !.cur = row, !.pc = "rp-release"]]
    /\ UNCHANGED <<inventory, orders, idem, payments, nproc, calls, lastWrite, sagaStarts, ledger, fnDone>>

\* processAbandonedOrder: inventoryRepo.release with the version just
\* read; a failure is logged and the loop goes on.
ReaperRelease(p) ==
    /\ proc[p].kind = "reaper" /\ proc[p].pc = "rp-release"
    /\ LET quantity == proc[p].ord.items[proc[p].i].quantity
           ok == ReleaseCondition(inventory[proc[p].key], quantity, proc[p].cur.version)
       IN  /\ DoWrite("release", proc[p].key, quantity, proc[p].cur.version)
           /\ ledger' = [ledger EXCEPT ![proc[p].oid].held[proc[p].key] =
                            IF ok THEN Max(0, @ - quantity) ELSE @]
    /\ proc' = [proc EXCEPT ![p] = ReaperReleaseFrom(proc[p], proc[p].i + 1)]
    /\ UNCHANGED <<orders, idem, payments, nproc, calls, sagaStarts, fnDone>>

\* processAbandonedOrder: orderRepo.update to CANCELLED with the metadata
\* read by the query and cancelReason; the write succeeds or throws and
\* the handler goes on with the next order.
ReaperCancel(p, ok) ==
    /\ proc[p].kind = "reaper" /\ proc[p].pc = "rp-cancel"
    /\ orders' = [orders EXCEPT ![proc[p].oid] =
                    IF ok THEN OrderUpdate(@, [status |-> "CANCELLED", cancelReason |-> "ABANDONED_CART",
                                               reminderEmailSent |-> proc[p].ord.reminderEmailSent])
                    ELSE @]
    /\ proc' = [proc EXCEPT ![p] = NextAbandoned(proc[p], proc[p].n + 1)]
    /\ UNCHANGED <<inventory, idem, payments, nproc, calls, lastWrite, sagaStarts, ledger, fnDone>>

NextReaper ==
    \/ TimePasses
    \/ ReaperTick
    \/ \E p \in Procs : ReaperQuery(p)
    \/ \E p \in Procs, sent \in BOOLEAN : ReaperSendEmail(p, sent)
    \/ \E p \in Procs, ok \in BOOLEAN : ReaperMarkReminder(p, ok)
    \/ \E p \in Procs : ReaperReleaseGet(p)
    \/ \E p \in Procs : ReaperRelease(p)
    \/ \E p \in Procs, ok \in BOOLEAN : ReaperCancel(p, ok)

SpecReaper == InitReaper /\ [][NextReaper]_vars

\* The reserved quantity the orders hold on a row.
HeldOn(key) == ledger["o1"].held[key] + ledger["o2"].held[key]

\* The reaper has cancelled the order.
Reaped(o) == orders[o].status = "CANCELLED" /\ orders[o].cancelReason = "ABANDONED_CART"

\* C26: a reaper tick cancels exactly the orders that are INVENTORY_RESERVED
\* with paymentStatus pending and older than TIMEOUT; it releases every
\* item of such an order and sets CANCELLED with cancelReason
\* ABANDONED_CART; status and reservations of other orders are unchanged.
ReaperCancelsAbandonedOnly ==
    /\ \A o \in Orders :
          /\ orders[o].status = "CANCELLED" => Reaped(o) /\ orders[o].paymentStatus = "pending"
          /\ Reaped(o) => orders[o].age > ABANDONED_CART_TIMEOUT /\ Held(o) = 0
          /\ orders[o].paymentStatus = "succeeded" => orders[o].status = "INVENTORY_RESERVED"
    /\ \A key \in Keys : StoredReserved(inventory[key]) = HeldOn(key)

\* C28: across reaper ticks, overlapping or not, with the metadata write
\* failing or not, at most one reminder email is delivered per order, and
\* after a delivery reminderEmailSent is true.
OneReminderPerOrder ==
    \A o \in Orders :
        /\ ledger[o].reminders <= 1
        /\ (ledger[o].reminders >= 1 /\ \A p \in Procs : ~(proc[p].pc = "rp-mark" /\ proc[p].oid = o))
              => orders[o].reminderEmailSent

----------------------------------------------------------------------------
(* The reaper with ticks that keep firing and calls that succeed *)

\* The scheduler fires the handler again.
ReaperTickAgain(p) ==
    /\ proc[p].kind = "reaper" /\ proc[p].pc = "done"
    /\ proc' = [proc EXCEPT ![p] = [IdleProc EXCEPT !.kind = "reaper", !.pc = "rp-query"]]
    /\ UNCHANGED <<inventory, orders, idem, payments, nproc, calls, lastWrite, sagaStarts, ledger, fnDone>>

\* The steps of one tick, every call of which succeeds.
ReaperSteps(p) ==
    \/ ReaperQuery(p)
    \/ ReaperSendEmail(p, TRUE)
    \/ ReaperMarkReminder(p, TRUE)
    \/ ReaperReleaseGet(p)
    \/ ReaperRelease(p)
    \/ ReaperCancel(p, TRUE)

ReaperFires == ReaperTick \/ \E p \in Procs : ReaperTickAgain(p)

NextReaperLive ==
    \/ TimePasses
    \/ ReaperTick
    \/ \E p \in Procs : ReaperTickAgain(p)
    \/ \E p \in Procs : ReaperSteps(p)

SpecReaperLive ==
    /\ InitReaper /\ [][NextReaperLive]_vars
    /\ WF_vars(TimePasses) /\ WF_vars(ReaperFires)
    /\ \A p \in 1..MaxTicks : WF_vars(ReaperSteps(p))

\* C27: an order whose payment webhook never arrives is eventually, as
\* time passes and ticks keep firing, CANCELLED with cancelReason
\* ABANDONED_CART, be it PENDING or INVENTORY_RESERVED.
UnpaidEventuallyReaped ==
    \A o \in ReaperOrders : (orders[o].paymentStatus = "pending") ~> Reaped(o)

----------------------------------------------------------------------------
(* Admin cancel of a paid order in any status, beside an admin inventory
   update of the rows *)

NextAdmin ==
    \/ AdminCancelReceived
    \/ AdminInventoryGet
    \/ \E p \in Procs : AdminInventoryWrite(p)
    \/ \E p \in Procs : AdminCancelGet(p)
    \/ \E p \in Procs : AdminCancelRefund(p)
    \/ \E p \in Procs : AdminCancelRefundUpdate(p)
    \/ \E p \in Procs : AdminCancelReleaseGet(p)
    \/ \E p \in Procs : AdminCancelRelease(p)
    \/ \E p \in Procs : AdminCancelUpdate(p)

SpecAdmin == InitCompensation /\ [][NextAdmin]_vars

\* C29: admin cancel of a PAYMENT_CONFIRMED order whose payment succeeded
\* refunds the payment, releases every item's reservation and sets the
\* order CANCELLED with paymentStatus refunded; the response's operations
\* are payment_refunded, inventory_released and order_cancelled.
AdminCancelOfConfirmed ==
    [][\A p \in Procs :
          (/\ proc[p].kind = "admin-cancel" /\ proc[p].pc = "ac-cancel" /\ Steps(p)
           /\ proc[p].ord.status = "PAYMENT_CONFIRMED" /\ proc[p].ord.paymentStatus = "succeeded"
           /\ "payment_refund_failed" \notin proc[p].steps)
          => /\ proc'[p].pc = "done" /\ proc'[p].result = 200
             /\ proc'[p].steps = {"payment_refunded", "inventory_released", "order_cancelled"}
             /\ payments'[proc[p].oid].refunds >= 1
             /\ \A i \in 1..Len(proc[p].ord.items) :
                   ledger'[proc[p].oid].held[KeyOf(proc[p].ord.items[i].productId,
                                                   proc[p].ord.items[i].warehouseId)] = 0
             /\ orders'[proc[p].oid].status = "CANCELLED"
             /\ orders'[proc[p].oid].paymentStatus = "refunded"]_vars

\* C30: admin cancel of an order that is SHIPPING_ALLOCATED or CANCELLED is
\* answered 400 and performs no refund, no release and no order write.
AdminCancelRejected ==
    [][\A p \in Procs :
          (/\ proc[p].kind = "admin-cancel" /\ proc[p].pc = "ac-get" /\ Steps(p)
           /\ orders[proc[p].oid].status \in {"SHIPPING_ALLOCATED", "CANCELLED"})
          => /\ proc'[p].pc = "done" /\ proc'[p].result = 400
             /\ orders' = orders /\ inventory' = inventory /\ payments' = payments]_vars

\* An admin cancel of a SHIPPING_ALLOCATED order has been answered 400; the
\* order and its reservations are as they were.
AdminCancelRejectedWitness ==
    \E p \in Procs :
        /\ proc[p].kind = "admin-cancel" /\ proc[p].pc = "done" /\ proc[p].result = 400
        /\ orders[proc[p].oid].status = "SHIPPING_ALLOCATED"
        /\ Held(proc[p].oid) = SumQuantity(orders[proc[p].oid].items)
        /\ payments[proc[p].oid].refunds = 0

----------------------------------------------------------------------------
(* AllocateShipping invoked on a stored order *)

MaxProcsShipping == 2   \* AllocateShipping invocations per behaviour

\* The order row with the attributes a shipment would fill, not yet set.
Unshipped(order) ==
    [f \in DOMAIN order \cup {"trackingNumber", "estimatedDelivery"} |->
        CASE f = "trackingNumber" -> "none"
          [] f = "estimatedDelivery" -> 0
          [] OTHER -> order[f]]

InitShipping ==
    /\ \E status \in OrderStatuses, items \in {OrderItems, TwoItems}, w \in Warehouses :
          LET order == Unshipped(StoredOrder(status, items, w))
              held == [key \in AllKeys |->
                          IF status \in ReservedStatuses THEN QuantityOn(order.items, key) ELSE 0]
          IN  /\ orders = [o \in {"o1"} |-> order]
              /\ inventory = [key \in AllKeys |-> Row(SumQuantity(TwoItems), held[key], 1, TRUE)]
              /\ ledger = [o \in {"o1"} |-> [NoLedger(items) EXCEPT !.held = held]]
              /\ payments = [o \in {"o1"} |->
                               [status |-> "succeeded", amount |-> order.totalAmount,
                                refunds |-> IF status = "CANCELLED" THEN 1 ELSE 0]]
    /\ idem = [k \in {generateOrderKey("o1", "payment-verification")} |-> NoIdem]
    /\ proc = [p \in 1..MaxProcsShipping |-> IdleProc]
    /\ nproc = 0
    /\ calls = 0
    /\ lastWrite = NoWrite
    /\ sagaStarts = [o \in {"o1"} |-> 1]
    /\ fnDone = [k \in {generateOrderKey("o1", "payment-verification")} |-> 0]

\* The step is invoked with {orderId, paymentId}.
ShippingInvoked ==
    /\ \E o \in Orders :
          Start([IdleProc EXCEPT !.kind = "saga", !.oid = o, !.stage = "shipping", !.pc = "as-get"])
    /\ UNCHANGED <<inventory, orders, idem, payments, calls, lastWrite, sagaStarts, ledger, fnDone>>

NextShipping ==
    \/ ShippingInvoked
    \/ \E p \in Procs : ShippingGetOrder(p)
    \/ \E p \in Procs : ShippingUpdateOrder(p)

SpecShipping == InitShipping /\ [][NextShipping]_vars

\* C31: when AllocateShipping has returned, the order row is
\* SHIPPING_ALLOCATED and carries the tracking number and the estimated
\* delivery date the step returned.
ShipmentPersisted ==
    \A p \in Procs :
        (proc[p].stage = "shipping" /\ proc[p].pc = "step-returned")
        => /\ orders[proc[p].oid].status = "SHIPPING_ALLOCATED"
           /\ orders[proc[p].oid].trackingNumber = proc[p].shipment.trackingNumber
           /\ orders[proc[p].oid].estimatedDelivery = proc[p].shipment.estimatedDelivery

----------------------------------------------------------------------------
\* C32: confirmShipment(qty, expectedVersion) on a row with the expected
\* version and reserved >= qty takes qty from both quantity and reserved
\* and adds 1 to version.
ConfirmShipmentTakesBoth ==
    (lastWrite.op = "confirmShipment" /\ lastWrite.ok /\ lastWrite.before.hasReserved)
        => \E qty \in 1..MaxReq :
              /\ lastWrite.before.reserved >= qty
              /\ inventory[lastWrite.key].reserved = lastWrite.before.reserved - qty
              /\ inventory[lastWrite.key].quantity = lastWrite.before.quantity - qty
              /\ inventory[lastWrite.key].version = lastWrite.before.version + 1

----------------------------------------------------------------------------
(* withRetry around an operation that succeeds or throws *)

MaxProcsWithRetry == 2   \* withRetry calls per behaviour
MaxRetriesArg == 3       \* largest maxRetries passed; 3 is the default
MaxBaseDelay == 2        \* largest baseDelay passed, in units of 100 ms

Throttled == "ProvisionedThroughputExceededException"

\* What one call of the operation ends with: a value, or an error by name.
OperationOutcomes == {"ok", Throttled, "ConditionalCheckFailedException"}

RECURSIVE Pow2(_)
Pow2(n) == IF n = 0 THEN 1 ELSE 2 * Pow2(n - 1)

\* (mutant) every error is retried
ShouldRetryAnyError(error, attempt, maxRetries) == attempt < maxRetries

ShouldRetry(error, attempt, maxRetries) ==
    error = Throttled /\ attempt < maxRetries

InitWithRetry ==
    /\ inventory = [k \in {} |-> NoRow]
    /\ orders = [o \in {} |-> NoOrder]
    /\ idem = [k \in {} |-> NoIdem]
    /\ payments = [o \in {} |-> NoPayment]
    /\ proc = [p \in 1..MaxProcsWithRetry |-> IdleProc]
    /\ nproc = 0
    /\ calls = 0
    /\ lastWrite = NoWrite
    /\ sagaStarts = [o \in {} |-> 0]
    /\ ledger = [o \in {} |-> <<>>]
    /\ fnDone = [k \in {} |-> 0]

\* withRetry(operation, maxRetries, baseDelay) is entered: attempt = 0.
WithRetryCalled ==
    /\ \E maxRetries \in 0..MaxRetriesArg, baseDelay \in 1..MaxBaseDelay :
          Start([IdleProc EXCEPT !.kind = "withRetry", !.pc = "wr-attempt",
                                 !.maxRetries = maxRetries, !.baseDelay = baseDelay])
    /\ UNCHANGED <<inventory, orders, idem, payments, calls, lastWrite, sagaStarts, ledger, fnDone>>

\* One turn of the loop: the operation is called (tries counts the calls);
\* its value is returned, or its error is kept in lastError and either the
\* delay is slept and the loop continues, or the error is thrown.
WithRetryAttempt(p) ==
    /\ proc[p].kind = "withRetry" /\ proc[p].pc = "wr-attempt"
    /\ proc[p].attempt <= proc[p].maxRetries
    /\ \E outcome \in OperationOutcomes :
          proc' = [proc EXCEPT ![p] =
             IF outcome = "ok"
               THEN [@ EXCEPT !.tries = @ + 1, !.pc = "wr-returned"]
             ELSE IF ShouldRetry(outcome, proc[p].attempt, proc[p].maxRetries)
               THEN [@ EXCEPT !.tries = @ + 1, !.lastError = outcome,
                              !.delays = Append(@, proc[p].baseDelay * Pow2(proc[p].attempt)),
                              !.attempt = @ + 1]
             ELSE [@ EXCEPT !.tries = @ + 1, !.lastError = outcome, !.error = outcome,
                            !.pc = "wr-threw"]]
    /\ UNCHANGED <<inventory, orders, idem, payments, nproc, calls, lastWrite, sagaStarts, ledger, fnDone>>

NextWithRetry ==
    \/ WithRetryCalled
    \/ \E p \in Procs : WithRetryAttempt(p)

SpecWithRetry == InitWithRetry /\ [][NextWithRetry]_vars

WithRetryCalls == {p \in Procs : proc[p].kind = "withRetry"}

\* C33: withRetry calls its operation again only after a throttling error,
\* at most maxRetries times after the first call and after a delay of
\* baseDelay * 2^attempt; any other error, and a throttling error on the
\* last attempt, is thrown as the operation threw it; the calls of the
\* operation never exceed maxRetries + 1.
WithRetryBounded ==
    /\ \A p \in WithRetryCalls :
          /\ proc[p].tries <= proc[p].maxRetries + 1
          /\ Len(proc[p].delays) = proc[p].attempt
          /\ \A k \in 1..Len(proc[p].delays) :
                proc[p].delays[k] = proc[p].baseDelay * Pow2(k - 1)
          /\ proc[p].pc = "wr-attempt" =>
                /\ proc[p].tries = proc[p].attempt
                /\ (proc[p].attempt > 0 => proc[p].lastError = Throttled)
          /\ proc[p].pc \in {"wr-returned", "wr-threw"} => proc[p].tries = proc[p].attempt + 1
          /\ proc[p].pc = "wr-threw" =>
                /\ proc[p].error = proc[p].lastError
                /\ (proc[p].lastError = Throttled => proc[p].attempt = proc[p].maxRetries)

\* A call with the default maxRetries was throttled four times and threw
\* the throttling error after delays of 1, 2 and 4 times baseDelay.
WithRetryWitness ==
    \E p \in WithRetryCalls :
        /\ proc[p].pc = "wr-threw" /\ proc[p].maxRetries = 3 /\ proc[p].tries = 4
        /\ proc[p].error = Throttled
        /\ proc[p].delays = <<proc[p].baseDelay, 2 * proc[p].baseDelay, 4 * proc[p].baseDelay>>

----------------------------------------------------------------------------
\* C34: under reserve, release, confirmShipment, restock and the admin
\* inventory update (set, add, subtract), 0 <= reserved <= quantity holds
\* of a row in every state. Stated of the rows that store reserved: every
\* step from a row within the bounds leaves the row within the bounds.
RowStaysWithinBounds ==
    [][\A key \in Keys :
          (inventory[key].exists /\ inventory[key].hasReserved /\ SoundRow(inventory[key]))
              => SoundRow(inventory'[key])]_vars

----------------------------------------------------------------------------
\* C38: on a legacy row with no stored reserved attribute, reserve(qty)
\* succeeds only if quantity >= qty and release(qty) with qty > 0 fails, so
\* the row is left with 0 <= reserved <= quantity.
LegacyRowAsZero ==
    (lastWrite.before.exists /\ ~lastWrite.before.hasReserved)
        => /\ (lastWrite.op = "reserve" /\ lastWrite.ok)
                => inventory[lastWrite.key].reserved <= lastWrite.before.quantity
           /\ lastWrite.op = "release" => ~lastWrite.ok
           /\ lastWrite.op \in {"reserve", "release"} => SoundRow(inventory[lastWrite.key])

----------------------------------------------------------------------------
(* One execution for an order of two items, of two products or of the same
   product; the second product may be out of stock, and the first
   warehouse may hold one unit of the first product or none *)

SameProductItems == <<Item("p1", 1), Item("p1", 1)>>

InitShortStock ==
    /\ \E q1 \in 0..SagaStock, q2 \in 0..SagaStock :
          inventory = [key \in AllKeys |->
                          CASE key = <<"p1", "warehouse-east">> -> Row(q1, 0, 0, TRUE)
                            [] key = <<"p1", "warehouse-west">> -> Row(SumQuantity(OrderItems), 0, 0, TRUE)
                            [] key = <<"p2", "warehouse-east">> -> Row(0, 0, 0, TRUE)
                            [] key = <<"p2", "warehouse-west">> -> Row(q2, 0, 0, TRUE)]
    /\ \E items \in {TwoItems, SameProductItems} :
          orders = [o \in {"o1"} |->
                      UpdatePaymentInfo(NewOrder(items),
                                        [paymentIntentId |-> "pi", paymentStatus |-> "succeeded"])]
    /\ idem = [k \in {generateOrderKey("o1", "payment-verification")} |-> NoIdem]
    /\ \E paymentIntent \in PaymentIntents : payments = [o \in {"o1"} |-> paymentIntent]
    /\ proc = [p \in {1} |-> [IdleProc EXCEPT !.kind = "saga", !.oid = "o1", !.stage = "reserve", !.pc = "ri-get"]]
    /\ nproc = 1
    /\ calls = 0
    /\ lastWrite = NoWrite
    /\ sagaStarts = [o \in {"o1"} |-> 1]
    /\ ledger = [o \in {"o1"} |-> NoLedger(orders[o].items)]
    /\ fnDone = [k \in {generateOrderKey("o1", "payment-verification")} |-> 0]

\* The steps of an execution that is neither killed nor timed out: its
\* idempotency row is its own, so markInProgress inserts it, and
\* AllocateShipping does not fail, so no compensation refunds.
NextShortStock ==
    \/ \E p \in Procs : ReserveGetOrder(p)
    \/ \E p \in Procs : ReserveList(p)
    \/ \E p \in Procs : ReserveFresh(p)
    \/ \E p \in Procs : ReserveWrite(p)
    \/ \E p \in Procs : ReserveUpdateOrder(p)
    \/ \E p \in Procs : VerifyGetOrder(p)
    \/ \E p \in Procs : EoCheck(p)
    \/ \E p \in Procs : EoMarkInProgress(p)
    \/ \E p \in Procs : VerifyFn(p)
    \/ \E p \in Procs : EoMarkCompleted(p)
    \/ \E p \in Procs : EoMarkFailed(p)
    \/ \E p \in Procs : VerifyUpdateOrder(p)
    \/ \E p \in Procs : ShippingGetOrder(p)
    \/ \E p \in Procs : ShippingUpdateOrder(p)
    \/ \E p \in Procs : CompensationGetOrder(p)
    \/ \E p \in Procs : CompensationReleaseGet(p)
    \/ \E p \in Procs : CompensationRelease(p)
    \/ \E p \in Procs : CompensationCancel(p)
    \/ \E p \in Procs : SagaNext(p)
    \/ \E p \in Procs : SagaCatch(p)

SpecShortStock == InitShortStock /\ [][NextShortStock]_vars

\* C35: when ReserveInventory has failed on an item after reserving earlier
\* items of the order, the compensated order holds none of them: a
\* CANCELLED order holds no reserved stock.
CancelledHoldsNothing ==
    \A o \in Orders : orders[o].status = "CANCELLED" => Held(o) = 0

----------------------------------------------------------------------------
\* C36: what the compensation handler, the reaper and admin cancel subtract
\* from reserved on behalf of an order's item never exceeds what was
\* reserved for it: every release that succeeds takes no more than the
\* order still holds on the row.
ReleaseWithinHeld ==
    [][\A p \in Procs :
          (/\ proc[p].pc \in {"ch-release", "ac-release", "rp-release"} /\ Steps(p)
           /\ lastWrite'.n = lastWrite.n + 1 /\ lastWrite'.ok)
          => ledger[proc[p].oid].held[proc[p].key]
                >= inventory[proc[p].key].reserved - inventory'[proc[p].key].reserved]_vars

----------------------------------------------------------------------------
\* C37: once ReserveInventory has completed, every item of the order
\* carries a warehouseId, and it is the warehouse whose row was incremented
\* for the item, also for two items of one product reserved in different
\* warehouses: per row, the items that name the row add up to what the
\* order holds there.
ItemsNameTheirRows ==
    \A o \in Orders :
        orders[o].status = "INVENTORY_RESERVED"
        => /\ \A i \in 1..Len(orders[o].items) : orders[o].items[i].warehouseId # "none"
           /\ \A key \in AllKeys : QuantityOn(orders[o].items, key) = ledger[o].held[key]

----------------------------------------------------------------------------
\* C39: when VerifyPayment was killed inside executeOnce after the
\* IN_PROGRESS row was written and before it was marked COMPLETED or
\* FAILED, a re-invocation with the same key is not rejected as already in
\* progress: it goes on to run fn.
OrphanedKeyIsRetried ==
    [][\A p \in Procs :
          (/\ proc[p].stage = "payment" /\ proc[p].pc = "eo-mark-failed" /\ proc[p].tries >= 1
           /\ idem[proc[p].ikey].status = "IN_PROGRESS"
           /\ Steps(p) /\ proc'[p].stage = "payment" /\ proc'[p].tries = proc[p].tries)
          => proc'[p].pc = "eo-fn"]_vars

----------------------------------------------------------------------------
\* C40: when VerifyPayment was killed after its idempotency row was marked
\* COMPLETED and before the order was written, the re-invocation takes the
\* cached result without calling the payment provider, writes
\* PAYMENT_CONFIRMED and returns the amount the first invocation verified.
CachedPaymentConfirms ==
    [][\A p \in Procs :
          LET k == generateOrderKey(proc[p].oid, "payment-verification")
          IN  (/\ proc[p].stage = "payment" /\ proc[p].tries >= 1
               /\ idem[k].status = "COMPLETED"
               /\ \/ proc[p].pc \in {"vp-get", "eo-check"}
                  \/ proc[p].pc = "eo-returned" /\ proc[p].existing.status = "COMPLETED"
               /\ Steps(p) /\ proc'[p].stage = "payment" /\ proc'[p].tries = proc[p].tries)
              => /\ fnDone' = fnDone /\ payments' = payments /\ idem' = idem
                 /\ proc[p].pc = "vp-get" => proc'[p].pc = "eo-check"
                 /\ proc[p].pc = "eo-check" =>
                       /\ proc'[p].pc = "eo-returned"
                       /\ proc'[p].result = payments[proc[p].oid].amount
                 /\ proc[p].pc = "eo-returned" =>
                       /\ proc'[p].pc = "step-returned"
                       /\ proc'[p].result = payments[proc[p].oid].amount
                       /\ orders'[proc[p].oid].status = "PAYMENT_CONFIRMED"]_vars

\* A re-invocation has confirmed the order from the cached result; the
\* provider was asked once.
CachedPaymentWitness ==
    \E p \in Procs :
        /\ proc[p].stage = "payment" /\ proc[p].pc = "step-returned" /\ proc[p].tries >= 1
        /\ proc[p].existing.status = "COMPLETED"
        /\ proc[p].result = payments[proc[p].oid].amount
        /\ orders[proc[p].oid].status = "PAYMENT_CONFIRMED"
        /\ fnDone[proc[p].ikey] = 1

====
